---- MODULE Spec2Model ----
(***************************************************************************)
(* A model of the scm command-line component manager: the version policy   *)
(* engine (lib/versioning.ts), the version resolver (lib/registry.ts), the *)
(* dependency resolver (lib/utils.ts) and the add / create / fork commands.*)
(*                                                                         *)
(* Strings whose characters the code inspects (paths, dependency names,    *)
(* component names) are sequences of one-character strings.                *)
(***************************************************************************)
EXTENDS Integers, Sequences, FiniteSets, TLC

VARIABLES
    \* ---- semver.inc applied by incrementVersion (lib/versioning.ts)
    svVersion,      \* the version handed to incrementVersion, or NoVersion
    svType,         \* the release type handed to it
    svResult,       \* what it returned
    \* ---- detectVersionChanges (lib/versioning.ts)
    diskFiles,      \* the component directory: relative path -> content hash
    hashFile,       \* ~/.scm/version-hashes.json, this component's entry
    previousHashes, \* local of the last analysis: the snapshot it read
    fileHashes,     \* local of the last analysis: the snapshot it computed
    changedFiles,   \* local of the last analysis
    newFiles,       \* local of the last analysis
    deletedFiles,   \* local of the last analysis
    versionInfo,    \* what the last analysis returned (or threw)
    \* ---- resolveDependencies (lib/utils.ts)
    rdDependencies,         \* the npm dependency list handed to it
    rdRegistryDependencies, \* the registry dependency list handed to it
    rdResult,               \* what it returned; called is FALSE before the call
    \* ---- the registry, as the commands see it over HTTPS
    registryIndex,  \* the index file: reachable or not, and its records
    registry,       \* component -> the version directories that hold a manifest
    \* ---- resolveComponentVersion (lib/registry.ts), called on its own
    rsCall,         \* the call in progress: name, version, result
    rsPrevious,     \* the call before it
    \* ---- the add command (commands/add.ts)
    manifestDeps,   \* component -> the registryDependencies of its manifest
    cache,          \* ~/.scm/cache: component -> the manifest cached for it
    ledger,         \* .scm-installed.json: component id -> recorded version
    stack,          \* the running scm add processes, the innermost last
    flagged,        \* dependencies the running command reported circular
    started,        \* dependency installs the running command started
    exitCode,       \* exit code of the last command, -1 before the first
    \* ---- the project the commands run in
    ledgerFile,     \* .scm-installed.json is "missing", "ok" or "corrupt"
    projectFiles,   \* installed component files: path -> content
    npmPackages,    \* the npm packages installed into the project
    cssFile,        \* the components whose CSS variables globals.css holds
    \* ---- the create and fork commands (commands/create.ts, fork.ts)
    componentDirs,  \* the directories under components/ of the project
    crCommand,      \* the create or fork that has just run, or NoCommand
    \* ---- withRetry and its rate limiter (lib/utils.ts)
    retry,          \* the withRetry call in progress or just finished
    rateLimiter,    \* operation name -> its requests inside the window
    \* ---- the cache (lib/cache.ts)
    cacheDir,       \* ~/.scm/cache: key -> the entry file, corrupt or missing
    now,            \* Date.now(), in half days
    cacheGot,       \* what the last Cache.get returned
    \* ---- pollForAuthorization (lib/github.ts)
    poll,           \* the call: its locals, its polls and how it ended
    pollNow,        \* Date.now() as the call sees it, in milliseconds
    \* ---- login and logout (commands/login.ts, lib/config.ts, lib/github.ts)
    configFile,     \* ~/.scm/config.json: absent, or its JSON object
    authCommand,    \* the login, logout or GitHub call that has just run
    \* ---- the publish command (commands/publish.ts)
    remoteVersions, \* the version directories of the component in the registry
    pub,            \* the publish in progress or just finished
    \* ---- writing the files of ~/.scm (lib/cache.ts, lib/config.ts)
    scmFiles,       \* path -> the file as it is on disk at this instant
    writer,         \* the write in progress, if any
    observed        \* what another process last read from a file

svVars  == <<svVersion, svType, svResult>>
rtVars  == <<retry, rateLimiter>>
chVars  == <<cacheDir, now, cacheGot>>
plVars  == <<poll, pollNow>>
auVars  == <<configFile, authCommand>>
pbVars  == <<remoteVersions, pub>>
wrVars  == <<scmFiles, writer, observed>>
libVars == <<rtVars, chVars, plVars, auVars, pbVars, wrVars>>
detVars == <<diskFiles, hashFile, previousHashes, fileHashes,
             changedFiles, newFiles, deletedFiles, versionInfo>>
rdVars  == <<rdDependencies, rdRegistryDependencies, rdResult>>
envVars == <<registryIndex, registry>>
rsVars  == <<rsCall, rsPrevious>>
projVars == <<ledgerFile, projectFiles, npmPackages, cssFile>>
addVars == <<manifestDeps, cache, ledger, stack, flagged, started, exitCode,
             projVars>>
crVars  == <<componentDirs, crCommand>>
vars    == <<svVars, detVars, rdVars, envVars, rsVars, addVars, crVars,
             libVars>>

\* what an action of one part of the program leaves alone
notSv   == <<detVars, rdVars, envVars, rsVars, addVars, crVars, libVars>>
notDet  == <<svVars, rdVars, envVars, rsVars, addVars, crVars, libVars>>
notRd   == <<svVars, detVars, envVars, rsVars, addVars, crVars, libVars>>
notRs   == <<svVars, detVars, rdVars, addVars, crVars, libVars>>
notAdd  == <<svVars, detVars, rdVars, rsVars, crVars, libVars>>
notCr   == <<svVars, detVars, rdVars, rsVars, addVars, libVars>>
notLib  == <<svVars, detVars, rdVars, envVars, rsVars, addVars, crVars>>
notRt   == <<notLib, chVars, plVars, auVars, pbVars, wrVars>>
notCh   == <<notLib, rtVars, plVars, auVars, pbVars, wrVars>>
notPl   == <<notLib, rtVars, chVars, auVars, pbVars, wrVars>>
notAu   == <<notLib, rtVars, chVars, plVars, pbVars, wrVars>>

(***************************************************************************)
(* Bounds of the model.                                                    *)
(***************************************************************************)
MaxNum  == 2    \* version components and prerelease identifiers are 0..MaxNum
MaxHash == 2    \* content hashes are 1..MaxHash
MaxDeps == 2    \* a dependency list has at most MaxDeps entries

(***************************************************************************)
(* String helpers: String.prototype.includes / endsWith / startsWith.      *)
(***************************************************************************)
StartsWithAt(s, pat, i) ==
    /\ i + Len(pat) - 1 <= Len(s)
    /\ \A k \in 1..Len(pat) : s[i + k - 1] = pat[k]

Includes(s, pat) == \E i \in 1..(Len(s) + 1) : StartsWithAt(s, pat, i)

EndsWith(s, suf) ==
    /\ Len(suf) <= Len(s)
    /\ StartsWithAt(s, suf, Len(s) - Len(suf) + 1)

StartsWith(s, pre) == StartsWithAt(s, pre, 1)

(***************************************************************************)
(* Semantic versions as the semver package parses them: the three numeric  *)
(* components, the prerelease identifiers and the build identifiers.  A    *)
(* string semver.valid rejects is NoVersion.                               *)
(***************************************************************************)
NoVersion == [valid |-> FALSE]

SemVer(ma, mi, pa, pre, build) ==
    [valid |-> TRUE, major |-> ma, minor |-> mi, patch |-> pa,
     prerelease |-> pre, build |-> build]

Nums == 0..MaxNum

Prereleases == {<<>>} \cup {<<n>> : n \in Nums} \cup {<<0, n>> : n \in Nums}

Builds == {<<>>, <<1>>}

ValidVersions ==
    {SemVer(ma, mi, pa, pre, b) :
        ma \in Nums, mi \in Nums, pa \in Nums, pre \in Prereleases, b \in Builds}

ReleaseTypes == {"major", "minor", "patch"}

\* semver.valid(version) !== null
SemverValid(v) == v.valid

\* an increment that forgets to reset the lower-order components
SemverIncNoReset(v, type) ==
    CASE type = "major" -> SemVer(v.major + 1, v.minor, v.patch, <<>>, <<>>)
      [] type = "minor" -> SemVer(v.major, v.minor + 1, v.patch, <<>>, <<>>)
      [] type = "patch" -> SemVer(v.major, v.minor, v.patch + 1, <<>>, <<>>)

\* SemVer.prototype.inc followed by .version, which drops the build identifiers
SemverInc(v, type) ==
    CASE type = "major" ->
            SemVer(IF v.minor # 0 \/ v.patch # 0 \/ v.prerelease = <<>>
                   THEN v.major + 1 ELSE v.major, 0, 0, <<>>, <<>>)
      [] type = "minor" ->
            SemVer(v.major,
                   IF v.patch # 0 \/ v.prerelease = <<>>
                   THEN v.minor + 1 ELSE v.minor, 0, <<>>, <<>>)
      [] type = "patch" ->
            SemVer(v.major, v.minor,
                   IF v.prerelease = <<>> THEN v.patch + 1 ELSE v.patch,
                   <<>>, <<>>)

\* compareIdentifiers on numeric identifiers
CompareNum(a, b) == IF a < b THEN -1 ELSE IF a > b THEN 1 ELSE 0

\* SemVer.prototype.compareMain
CompareMain(a, b) ==
    IF CompareNum(a.major, b.major) # 0 THEN CompareNum(a.major, b.major)
    ELSE IF CompareNum(a.minor, b.minor) # 0 THEN CompareNum(a.minor, b.minor)
    ELSE CompareNum(a.patch, b.patch)

\* SemVer.prototype.comparePre: the identifier loop, from position i
RECURSIVE ComparePreFrom(_, _, _)
ComparePreFrom(p, q, i) ==
    IF i > Len(p) /\ i > Len(q) THEN 0
    ELSE IF i > Len(q) THEN 1
    ELSE IF i > Len(p) THEN -1
    ELSE IF p[i] = q[i] THEN ComparePreFrom(p, q, i + 1)
    ELSE CompareNum(p[i], q[i])

ComparePre(a, b) ==
    IF a.prerelease # <<>> /\ b.prerelease = <<>> THEN -1
    ELSE IF a.prerelease = <<>> /\ b.prerelease # <<>> THEN 1
    ELSE IF a.prerelease = <<>> /\ b.prerelease = <<>> THEN 0
    ELSE ComparePreFrom(a.prerelease, b.prerelease, 1)

\* semver.compare: build identifiers take no part in precedence
SemverCompare(a, b) ==
    IF CompareMain(a, b) # 0 THEN CompareMain(a, b) ELSE ComparePre(a, b)

SemverGt(a, b) == SemverCompare(a, b) > 0

\* incrementVersion(version, type): throws on an invalid version
IncrementVersion(v, type) ==
    IF ~SemverValid(v) THEN [threw |-> TRUE, version |-> NoVersion]
    ELSE [threw |-> FALSE, version |-> SemverInc(v, type)]

NoResult == [threw |-> FALSE, version |-> NoVersion]

(***************************************************************************)
(* incrementVersion on one input.                                          *)
(***************************************************************************)
DetIdle ==
    /\ diskFiles = [p \in {} |-> 0]
    /\ hashFile = [state |-> "missing", entry |-> [p \in {} |-> 0]]
    /\ previousHashes = [p \in {} |-> 0]
    /\ fileHashes = [p \in {} |-> 0]
    /\ changedFiles = {}
    /\ newFiles = {}
    /\ deletedFiles = {}
    /\ versionInfo = [status |-> "none"]

SvIdle ==
    /\ svVersion = NoVersion
    /\ svType = "patch"
    /\ svResult = NoResult

RdIdle ==
    /\ rdDependencies = <<>>
    /\ rdRegistryDependencies = <<>>
    /\ rdResult = [called |-> FALSE]

EnvIdle ==
    /\ registryIndex = [up |-> FALSE]
    /\ registry = <<>>

RsIdle ==
    /\ rsCall = [called |-> FALSE]
    /\ rsPrevious = [called |-> FALSE]

AddIdle ==
    /\ manifestDeps = <<>>
    /\ cache = <<>>
    /\ ledger = <<>>
    /\ stack = <<>>
    /\ flagged = {}
    /\ started = <<>>
    /\ exitCode = -1
    /\ ledgerFile = "missing"
    /\ projectFiles = <<>>
    /\ npmPackages = {}
    /\ cssFile = {}

CrIdle ==
    /\ componentDirs = {}
    /\ crCommand = [command |-> "none"]

RtIdle ==
    /\ retry = [state |-> "none"]
    /\ rateLimiter = <<>>

ChIdle ==
    /\ cacheDir = <<>>
    /\ now = 0
    /\ cacheGot = [called |-> FALSE]

PlIdle ==
    /\ poll = [state |-> "none"]
    /\ pollNow = 0

AuIdle ==
    /\ configFile = [exists |-> FALSE]
    /\ authCommand = [command |-> "none"]

PbIdle ==
    /\ remoteVersions = {}
    /\ pub = [pc |-> "idle"]

WrIdle ==
    /\ scmFiles = <<>>
    /\ writer = [pc |-> "idle"]
    /\ observed = [seen |-> FALSE]

LibIdle ==
    /\ RtIdle
    /\ ChIdle
    /\ PlIdle
    /\ AuIdle
    /\ PbIdle
    /\ WrIdle

InitSemver ==
    /\ svVersion \in ValidVersions \cup {NoVersion}
    /\ svType \in ReleaseTypes
    /\ svResult = NoResult
    /\ DetIdle
    /\ RdIdle
    /\ EnvIdle
    /\ RsIdle
    /\ AddIdle
    /\ CrIdle
    /\ LibIdle

Increment ==
    /\ svResult = NoResult
    /\ svResult' = IncrementVersion(svVersion, svType)
    /\ UNCHANGED <<svVersion, svType, notSv>>

NextSemver == Increment

SpecSemver == InitSemver /\ [][NextSemver]_vars

\* C2 (as stated): for every valid version and release type the result is
\* strictly greater than the input and exactly one of major/minor/patch is
\* incremented, the lower-order components reset to zero and the higher-order
\* ones unchanged.
ExactlyOneBump(v, r, type) ==
    CASE type = "major" -> r.major = v.major + 1 /\ r.minor = 0 /\ r.patch = 0
      [] type = "minor" ->
            r.major = v.major /\ r.minor = v.minor + 1 /\ r.patch = 0
      [] type = "patch" ->
            r.major = v.major /\ r.minor = v.minor /\ r.patch = v.patch + 1

C2_ExactlyOneIncremented ==
    (svResult # NoResult /\ SemverValid(svVersion)) =>
        /\ ~svResult.threw
        /\ SemverGt(svResult.version, svVersion)
        /\ ExactlyOneBump(svVersion, svResult.version, svType)

\* C2 (amended): for every valid version and release type the result is
\* strictly greater than the input; exactly one component is incremented (lower
\* ones reset, higher ones unchanged) whenever the input has no prerelease
\* identifiers, and for an input with prerelease identifiers the result is
\* either that or the input's own major.minor.patch with the prerelease dropped.
C2_GreaterAndBumpWithoutPrerelease ==
    (svResult # NoResult /\ SemverValid(svVersion)) =>
        /\ ~svResult.threw
        /\ SemverGt(svResult.version, svVersion)
        /\ svResult.version.prerelease = <<>>
        /\ svVersion.prerelease = <<>> =>
                ExactlyOneBump(svVersion, svResult.version, svType)
        /\ svVersion.prerelease # <<>> =>
                \/ ExactlyOneBump(svVersion, svResult.version, svType)
                \/ /\ svResult.version.major = svVersion.major
                   /\ svResult.version.minor = svVersion.minor
                   /\ svResult.version.patch = svVersion.patch

\* a minor bump of a release version that had a non-zero patch component
C2_Witness ==
    /\ svResult # NoResult
    /\ SemverValid(svVersion)
    /\ svVersion.prerelease = <<>>
    /\ svVersion.patch > 0
    /\ svType = "minor"
    /\ svResult.version.minor = svVersion.minor + 1
    /\ svResult.version.patch = 0

(***************************************************************************)
(* detectVersionChanges: the publish analysis of one component directory.  *)
(***************************************************************************)
RegistryJson    == <<"r", "e", "g", "i", "s", "t", "r", "y", ".", "j", "s", "o", "n">>
PackageJson     == <<"p", "a", "c", "k", "a", "g", "e", ".", "j", "s", "o", "n">>
ButtonTsx       == <<"b", "u", "t", "t", "o", "n", ".", "t", "s", "x">>
ReadmeMd        == <<"R", "E", "A", "D", "M", "E", ".", "m", "d">>
RegistryJsonMd  == <<"r", "e", "g", "i", "s", "t", "r", "y", ".", "j", "s", "o", "n", ".", "m", "d">>

\* the relative paths the component directory may hold; getAllFiles keeps
\* only files with these extensions
Paths == {RegistryJson, ButtonTsx, ReadmeMd, RegistryJsonMd}

Hashes == 1..MaxHash

EmptySnapshot == [p \in {} |-> 0]

Snapshots == UNION {[d -> Hashes] : d \in SUBSET Paths}

\* JavaScript truthiness of previousHashes[file] / fileHashes[file]
HasEntry(snapshot, file) == file \in DOMAIN snapshot /\ snapshot[file] # 0

\* a diff that forgets to compare the hashes
ChangedOfNoCompare(prev, cur) == {f \in DOMAIN cur : HasEntry(prev, f)}

\* lines 61-69, first branch
ChangedOf(prev, cur) ==
    {f \in DOMAIN cur : HasEntry(prev, f) /\ prev[f] # cur[f]}

\* lines 61-69, second branch
NewOf(prev, cur) == {f \in DOMAIN cur : ~HasEntry(prev, f)}

\* lines 71-75
DeletedOf(prev, cur) == {f \in DOMAIN prev : ~HasEntry(cur, f)}

breakingChanges == {RegistryJson, PackageJson}

featureFiles == {<<".", "t", "s", "x">>, <<".", "t", "s">>, <<".", "j", "s">>, <<".", "j", "s", "x">>}

\* determineChangeType
DetermineChangeType(changed, added, removed) ==
    IF \E file \in changed \cup added \cup removed :
            \E pattern \in breakingChanges : Includes(file, pattern)
    THEN "major"
    ELSE IF \E file \in added : \E ext \in featureFiles : EndsWith(file, ext)
    THEN "minor"
    ELSE "patch"

\* the versions the manifest under analysis may declare
DetectVersions == {SemVer(1, 0, 0, <<>>, <<>>), SemVer(1, 1, 0, <<>>, <<>>), NoVersion}

NoInfo == [status |-> "none"]

Threw == [status |-> "threw"]

VersionInfo(cur, new, type, has) ==
    [status |-> "ok", currentVersion |-> cur, newVersion |-> new,
     changeType |-> type, hasChanges |-> has]

\* lines 47-55: the stored snapshot, {} for a missing or corrupt ledger
ReadPreviousHashes(hf) == IF hf.state = "ok" THEN hf.entry ELSE EmptySnapshot

\* lines 47-55: a corrupt ledger is removed on read
HashFileAfterRead(hf) ==
    IF hf.state = "corrupt"
    THEN [state |-> "missing", entry |-> EmptySnapshot]
    ELSE hf

\* a user edit between two commands: create or rewrite a file
WriteFile(p, h) ==
    /\ versionInfo = NoInfo
    /\ ~(p \in DOMAIN diskFiles /\ diskFiles[p] = h)
    /\ diskFiles' = [q \in DOMAIN diskFiles \cup {p} |->
                        IF q = p THEN h ELSE diskFiles[q]]
    /\ UNCHANGED <<hashFile, previousHashes, fileHashes, changedFiles,
                   newFiles, deletedFiles, versionInfo, notDet>>

\* a user edit between two commands: delete a file
RemoveFile(p) ==
    /\ versionInfo = NoInfo
    /\ p \in DOMAIN diskFiles
    /\ diskFiles' = [q \in DOMAIN diskFiles \ {p} |-> diskFiles[q]]
    /\ UNCHANGED <<hashFile, previousHashes, fileHashes, changedFiles,
                   newFiles, deletedFiles, versionInfo, notDet>>

\* the ledger file is damaged between two commands
CorruptHashFile ==
    /\ versionInfo = NoInfo
    /\ hashFile.state = "ok"
    /\ hashFile' = [state |-> "corrupt", entry |-> EmptySnapshot]
    /\ UNCHANGED <<diskFiles, previousHashes, fileHashes, changedFiles,
                   newFiles, deletedFiles, versionInfo, notDet>>

\* detectVersionChanges(componentPath, currentVersion); persistOk is whether
\* writing the ledger (lines 103-110) succeeds
DetectVersionChanges(currentVersion, persistOk) ==
    /\ versionInfo = NoInfo
    /\ IF ~SemverValid(currentVersion)
       THEN /\ versionInfo' = Threw
            /\ UNCHANGED <<diskFiles, hashFile, previousHashes, fileHashes,
                           changedFiles, newFiles, deletedFiles>>
       ELSE LET cur     == diskFiles
                prev    == ReadPreviousHashes(hashFile)
                hfRead  == HashFileAfterRead(hashFile)
                changed == ChangedOf(prev, cur)
                added   == NewOf(prev, cur)
                removed == DeletedOf(prev, cur)
                hasChanges == changed # {} \/ added # {} \/ removed # {}
                changeType == DetermineChangeType(changed, added, removed)
            IN  /\ fileHashes' = cur
                /\ previousHashes' = prev
                /\ changedFiles' = changed
                /\ newFiles' = added
                /\ deletedFiles' = removed
                /\ UNCHANGED diskFiles
                /\ IF ~hasChanges
                   THEN /\ versionInfo' = VersionInfo(currentVersion,
                                              currentVersion, "patch", FALSE)
                        /\ hashFile' = hfRead
                   ELSE IF persistOk
                   THEN /\ versionInfo' = VersionInfo(currentVersion,
                                   SemverInc(currentVersion, changeType),
                                   changeType, TRUE)
                        /\ hashFile' = [state |-> "ok", entry |-> cur]
                   ELSE /\ versionInfo' = Threw
                        /\ hashFile' = hfRead
    /\ UNCHANGED notDet

\* the command ends: its locals are gone
DetectExit ==
    /\ versionInfo # NoInfo
    /\ versionInfo' = NoInfo
    /\ previousHashes' = EmptySnapshot
    /\ fileHashes' = EmptySnapshot
    /\ changedFiles' = {}
    /\ newFiles' = {}
    /\ deletedFiles' = {}
    /\ UNCHANGED <<diskFiles, hashFile, notDet>>

InitDetect ==
    /\ DetIdle
    /\ SvIdle
    /\ RdIdle
    /\ EnvIdle
    /\ RsIdle
    /\ AddIdle
    /\ CrIdle
    /\ LibIdle

NextDetect ==
    \/ \E p \in Paths, h \in Hashes : WriteFile(p, h)
    \/ \E p \in Paths : RemoveFile(p)
    \/ CorruptHashFile
    \/ \E v \in DetectVersions, ok \in BOOLEAN : DetectVersionChanges(v, ok)
    \/ DetectExit

SpecDetect == InitDetect /\ [][NextDetect]_vars

\* a path that is the component manifest or a package manifest, at the root
\* of the component or in a sub-directory of it
IsManifestFile(file) ==
    \/ file \in breakingChanges
    \/ EndsWith(file, <<"/">> \o RegistryJson)
    \/ EndsWith(file, <<"/">> \o PackageJson)

HasSourceExtension(file) == \E ext \in featureFiles : EndsWith(file, ext)

\* C1: the change type of an analysis that found changes is major when a
\* changed, added or removed path is registry.json or package.json, otherwise
\* minor when an added path has a source-code extension, otherwise patch.
C1_ClassifyPriority ==
    (versionInfo.status = "ok" /\ versionInfo.hasChanges) =>
        versionInfo.changeType =
            IF \E f \in changedFiles \cup newFiles \cup deletedFiles :
                    IsManifestFile(f)
            THEN "major"
            ELSE IF \E f \in newFiles : HasSourceExtension(f)
            THEN "minor"
            ELSE "patch"

\* C3: after an analysis, a path is changed iff it is in both snapshots with
\* different hashes, added iff only in the current one, removed iff only in the
\* previous one; the three sets are pairwise disjoint; and a snapshot diffed
\* against itself gives three empty sets, no changes and no version bump.
C3_DiffPartition ==
    versionInfo.status = "ok" =>
        /\ \A f \in Paths :
            /\ f \in changedFiles <=>
                    /\ f \in DOMAIN previousHashes
                    /\ f \in DOMAIN fileHashes
                    /\ previousHashes[f] # fileHashes[f]
            /\ f \in newFiles <=>
                    (f \in DOMAIN fileHashes /\ f \notin DOMAIN previousHashes)
            /\ f \in deletedFiles <=>
                    (f \in DOMAIN previousHashes /\ f \notin DOMAIN fileHashes)
        /\ changedFiles \cap newFiles = {}
        /\ changedFiles \cap deletedFiles = {}
        /\ newFiles \cap deletedFiles = {}
        /\ previousHashes = fileHashes =>
                /\ changedFiles = {} /\ newFiles = {} /\ deletedFiles = {}
                /\ ~versionInfo.hasChanges
                /\ versionInfo.newVersion = versionInfo.currentVersion

\* an analysis that found a changed, an added and a removed path at once
C3_Witness ==
    /\ versionInfo.status = "ok"
    /\ changedFiles # {}
    /\ newFiles # {}
    /\ deletedFiles # {}

(***************************************************************************)
(* resolveDependencies: trimming and deduplication of the two lists.       *)
(***************************************************************************)
Whitespace == {" "}

\* String.prototype.trim: the index of the first and last non-blank character
RECURSIVE TrimStart(_)
TrimStart(str) ==
    IF str # <<>> /\ Head(str) \in Whitespace THEN TrimStart(Tail(str)) ELSE str

RECURSIVE TrimEnd(_)
TrimEnd(str) ==
    IF str # <<>> /\ str[Len(str)] \in Whitespace
    THEN TrimEnd(SubSeq(str, 1, Len(str) - 1))
    ELSE str

Trim(str) == TrimEnd(TrimStart(str))

\* is x one of the first n entries of list
InList(list, x) == \E i \in 1..Len(list) : list[i] = x

\* a list without deduplication
RECURSIVE TrimmedNoDedupe(_)
TrimmedNoDedupe(list) ==
    IF list = <<>> THEN <<>>
    ELSE IF Trim(Head(list)) # <<>>
         THEN <<Trim(Head(list))>> \o TrimmedNoDedupe(Tail(list))
         ELSE TrimmedNoDedupe(Tail(list))

\* lines 829-839 and Array.from: the trimmed, non-empty entries in the order
\* a Map / Set keeps them (first insertion)
RECURSIVE TrimmedUniqueFrom(_, _)
TrimmedUniqueFrom(list, acc) ==
    IF list = <<>> THEN acc
    ELSE LET dep == Trim(Head(list))
         IN  IF dep # <<>> /\ ~InList(acc, dep)
             THEN TrimmedUniqueFrom(Tail(list), Append(acc, dep))
             ELSE TrimmedUniqueFrom(Tail(list), acc)

TrimmedUnique(list) == TrimmedUniqueFrom(list, <<>>)

\* the message pushed at lines 843-845, by the dependency it names
Conflict(dep) == [conflict |-> dep]

\* lines 841-847
RECURSIVE ConflictsOf(_, _)
ConflictsOf(registryList, npm) ==
    IF registryList = <<>> THEN <<>>
    ELSE IF InList(npm, Head(registryList))
         THEN <<Conflict(Head(registryList))>> \o ConflictsOf(Tail(registryList), npm)
         ELSE ConflictsOf(Tail(registryList), npm)

\* resolveDependencies(dependencies, registryDependencies)
ResolveDependencies(dependencies, registryDependencies) ==
    LET npm      == TrimmedUnique(dependencies)
        registryList == TrimmedUnique(registryDependencies)
    IN  [called |-> TRUE, threw |-> FALSE, npm |-> npm, registry |-> registryList,
         conflicts |-> ConflictsOf(registryList, npm)]

\* the dependency strings a manifest may list
DepA      == <<"a">>
DepB      == <<"b">>
DepAPad   == <<" ", "a">>
DepAPadR  == <<"a", " ">>
DepBlank  == <<" ">>
DepEmpty  == <<>>

DepStrings == {DepA, DepB, DepAPad, DepAPadR, DepBlank, DepEmpty}

\* the lists of at most n entries over set
RECURSIVE ListsUpTo(_, _)
ListsUpTo(set, n) ==
    IF n = 0 THEN {<<>>}
    ELSE ListsUpTo(set, n - 1) \cup
         {Append(l, x) : l \in {m \in ListsUpTo(set, n - 1) : Len(m) = n - 1},
                         x \in set}

InitDeps ==
    /\ rdDependencies \in ListsUpTo(DepStrings, MaxDeps)
    /\ rdRegistryDependencies \in ListsUpTo(DepStrings, MaxDeps)
    /\ rdResult = [called |-> FALSE]
    /\ DetIdle
    /\ SvIdle
    /\ EnvIdle
    /\ RsIdle
    /\ AddIdle
    /\ CrIdle
    /\ LibIdle

CallResolveDependencies ==
    /\ ~rdResult.called
    /\ rdResult' = ResolveDependencies(rdDependencies, rdRegistryDependencies)
    /\ UNCHANGED <<rdDependencies, rdRegistryDependencies, notRd>>

NextDeps == CallResolveDependencies

SpecDeps == InitDeps /\ [][NextDeps]_vars

NoDuplicates(list) ==
    \A i, j \in 1..Len(list) : list[i] = list[j] => i = j

\* C8: both output lists are free of duplicates and of entries that are empty
\* after trimming; every dependency named in both input lists has exactly one
\* conflict entry naming it; a conflict removes the dependency from neither
\* output list; and the call never throws.
C8_DedupeAndConflicts ==
    rdResult.called =>
        /\ ~rdResult.threw
        /\ NoDuplicates(rdResult.npm)
        /\ NoDuplicates(rdResult.registry)
        /\ \A i \in 1..Len(rdResult.npm) : Trim(rdResult.npm[i]) # <<>>
        /\ \A i \in 1..Len(rdResult.registry) : Trim(rdResult.registry[i]) # <<>>
        /\ \A i \in 1..Len(rdDependencies), j \in 1..Len(rdRegistryDependencies) :
              LET dep == Trim(rdDependencies[i])
              IN  (dep # <<>> /\ dep = Trim(rdRegistryDependencies[j])) =>
                    /\ Cardinality({k \in 1..Len(rdResult.conflicts) :
                            rdResult.conflicts[k] = Conflict(dep)}) = 1
                    /\ InList(rdResult.npm, dep)
                    /\ InList(rdResult.registry, dep)
        /\ \A i \in 1..Len(rdDependencies) :
              Trim(rdDependencies[i]) # <<>> =>
                    InList(rdResult.npm, Trim(rdDependencies[i]))
        /\ \A j \in 1..Len(rdRegistryDependencies) :
              Trim(rdRegistryDependencies[j]) # <<>> =>
                    InList(rdResult.registry, Trim(rdRegistryDependencies[j]))

\* the same dependency twice in the registry list and once, padded, in the
\* npm list: one conflict, and the dependency in both outputs
C8_Witness ==
    /\ rdResult.called
    /\ rdDependencies = <<DepAPad, DepB>>
    /\ rdRegistryDependencies = <<DepA, DepAPadR>>
    /\ rdResult.conflicts = <<Conflict(DepA)>>
    /\ rdResult.npm = <<DepA, DepB>>
    /\ rdResult.registry = <<DepA>>

(***************************************************************************)
(* Component identifiers and version strings, as typed on the command line *)
(* and as stored in the registry.                                          *)
(***************************************************************************)
Digits     == {"0", "1", "2", "3", "4", "5", "6", "7", "8", "9"}
LowerCase  == {"a", "b", "c", "d", "e", "f", "g", "h", "i", "j", "k", "l", "m",
               "n", "o", "p", "q", "r", "s", "t", "u", "v", "w", "x", "y", "z"}
UpperCase  == {"A", "B", "C", "D", "E", "F", "G", "H", "I", "J", "K", "L", "M",
               "N", "O", "P", "Q", "R", "S", "T", "U", "V", "W", "X", "Y", "Z"}

VLatest == <<"l", "a", "t", "e", "s", "t">>
V100    == <<"1", ".", "0", ".", "0">>
V231    == <<"2", ".", "3", ".", "1">>
VBad    == <<"1", ".", "x">>

IdA     == <<"u", "/", "a", "b">>
IdB     == <<"u", "/", "c", "d">>
IdC     == <<"u", "/", "e", "f">>
Card    == <<"c", "a", "r", "d">>

Components == {IdA, IdB}
Tags       == {VLatest, V100, V231}

Join(namespace, name) == namespace \o <<"/">> \o name
AtVersion(id, version) == id \o <<"@">> \o version

\* the positions of character c in s
PositionsOf(s, c) == {i \in 1..Len(s) : s[i] = c}

Min(S) == CHOOSE x \in S : \A y \in S : x <= y

\* String.prototype.split("/")
RECURSIVE Split(_, _)
Split(s, c) ==
    IF PositionsOf(s, c) = {} THEN <<s>>
    ELSE LET i == Min(PositionsOf(s, c))
         IN  <<SubSeq(s, 1, i - 1)>> \o Split(SubSeq(s, i + 1, Len(s)), c)

\* the first index from i on that does not hold a character of class
RECURSIVE SkipClass(_, _, _)
SkipClass(s, i, class) ==
    IF i <= Len(s) /\ s[i] \in class THEN SkipClass(s, i + 1, class) ELSE i

IdentifierChars == LowerCase \cup UpperCase \cup Digits \cup {".", "-"}

\* validateVersion: "latest", or
\* /^\d+\.\d+\.\d+(-[a-zA-Z0-9.-]+)?(\+[a-zA-Z0-9.-]+)?$/
ValidateVersion(version) ==
    IF version = <<>> THEN FALSE
    ELSE IF version = VLatest THEN TRUE
    ELSE
    LET a == SkipClass(version, 1, Digits)
        b == SkipClass(version, a + 1, Digits)
        c == SkipClass(version, b + 1, Digits)
        n == Len(version)
        \* (-[a-zA-Z0-9.-]+)? from c on
        d == IF c <= n /\ version[c] = "-"
                  /\ SkipClass(version, c + 1, IdentifierChars) > c + 1
             THEN SkipClass(version, c + 1, IdentifierChars) ELSE c
        \* (\+[a-zA-Z0-9.-]+)? from d on
        e == IF d <= n /\ version[d] = "+"
                  /\ SkipClass(version, d + 1, IdentifierChars) > d + 1
             THEN SkipClass(version, d + 1, IdentifierChars) ELSE d
    IN  /\ a > 1 /\ a <= n /\ version[a] = "."
        /\ b > a + 1 /\ b <= n /\ version[b] = "."
        /\ c > b + 1
        /\ e = n + 1

\* validateNamespace: /^[a-zA-Z0-9_-]+$/, 1 to 39 characters
ValidateNamespace(namespace) ==
    /\ namespace # <<>>
    /\ \A i \in 1..Len(namespace) :
          namespace[i] \in LowerCase \cup UpperCase \cup Digits \cup {"_", "-"}
    /\ Len(namespace) >= 1
    /\ Len(namespace) <= 39

\* the names validateComponentName refuses as reserved
reservedNames ==
    { <<"n", "o", "d", "e", "_", "m", "o", "d", "u", "l", "e", "s">>,
      <<"p", "a", "c", "k", "a", "g", "e", ".", "j", "s", "o", "n">>,
      <<"p", "a", "c", "k", "a", "g", "e">>,
      <<"c", "o", "m", "p", "o", "n", "e", "n", "t", "s">>,
      <<"l", "i", "b">>,
      <<"s", "r", "c">>,
      <<"d", "i", "s", "t">>,
      <<"b", "u", "i", "l", "d">>,
      <<"t", "e", "s", "t">>,
      <<"t", "e", "s", "t", "s">>,
      <<"d", "o", "c", "s">>,
      <<"e", "x", "a", "m", "p", "l", "e", "s">>,
      <<"c", "o", "n", "f", "i", "g">>,
      <<"i", "n", "d", "e", "x">>,
      <<"m", "a", "i", "n">>,
      <<"a", "p", "p">>,
      <<"u", "t", "i", "l", "s">>,
      <<"t", "y", "p", "e", "s">>,
      <<"i", "n", "t", "e", "r", "f", "a", "c", "e", "s">>,
      <<"c", "o", "n", "s", "t", "a", "n", "t", "s">> }

\* validateComponentName: /^[a-z][a-z0-9-]*[a-z0-9]$/, not reserved,
\* 2 to 50 characters, no "--"
ValidateComponentName(name) ==
    /\ name # <<>>
    /\ Len(name) >= 2
    /\ name[1] \in LowerCase
    /\ name[Len(name)] \in LowerCase \cup Digits
    /\ \A i \in 1..Len(name) : name[i] \in LowerCase \cup Digits \cup {"-"}
    /\ name \notin reservedNames
    /\ Len(name) <= 50
    /\ ~Includes(name, <<"-", "-">>)

InvalidName == [isValid |-> FALSE, namespace |-> <<>>, name |-> <<>>,
                version |-> <<>>]

\* parseComponentName: "namespace/name" or "namespace/name@version"
ParseComponentName(componentName) ==
    IF componentName = <<>> THEN InvalidName
    ELSE
    LET \* /^(.+?)@(.+)$/ : the first "@" with something on both sides
        ats == {i \in PositionsOf(componentName, "@") :
                    i >= 2 /\ i < Len(componentName)}
        componentWithoutVersion ==
            IF ats = {} THEN componentName
            ELSE SubSeq(componentName, 1, Min(ats) - 1)
        version ==
            IF ats = {} THEN VLatest
            ELSE SubSeq(componentName, Min(ats) + 1, Len(componentName))
        parts == Split(componentWithoutVersion, "/")
    IN  IF Len(parts) # 2 THEN InvalidName
        ELSE IF ~ValidateNamespace(parts[1]) THEN InvalidName
        ELSE IF ~ValidateComponentName(parts[2]) THEN InvalidName
        ELSE [isValid |-> TRUE, namespace |-> parts[1], name |-> parts[2],
              version |-> version]

(***************************************************************************)
(* The registry.  The index lists, for a component, a record that may or   *)
(* may not carry a version; each component has a set of version            *)
(* directories ("latest" among them) that hold a manifest.                 *)
(***************************************************************************)
NotListed == [listed |-> FALSE, version |-> <<>>]
Listed(version) == [listed |-> TRUE, version |-> version]

\* the records the index may hold for one component; a record without a
\* version has the empty string for it
IndexRecords == {NotListed, Listed(<<>>), Listed(V100), Listed(V231)}

\* the version a manifest declares: the directory's own version, and for the
\* "latest" directory the newest release
LatestDeclares == V231
DeclaredVersion(tag) == IF tag = VLatest THEN LatestDeclares ELSE tag

\* resolveComponentVersion that never reads the index
ResolveNeverFromIndex(componentName, version, index) == version

\* resolveComponentVersion with the pinned-version test dropped
ResolveAlwaysFromIndex(componentName, version, index) ==
    IF /\ index.up
       /\ componentName \in DOMAIN index.records
       /\ index.records[componentName].listed
       /\ index.records[componentName].version # <<>>
    THEN index.records[componentName].version
    ELSE version

\* resolveComponentVersion(componentName, version) against the index
ResolveComponentVersion(componentName, version, index) ==
    IF version # VLatest THEN version
    ELSE IF /\ index.up
            /\ componentName \in DOMAIN index.records
            /\ index.records[componentName].listed
            /\ index.records[componentName].version # <<>>
         THEN index.records[componentName].version
         ELSE VLatest

\* getLatestVersion(namespace, name) of the update command: the index
\* version, else the version the "latest" manifest declares, else null (the
\* empty string here); a failed index fetch is caught with the rest
GetLatestVersion(componentName, index, tree) ==
    IF ~index.up THEN <<>>
    ELSE IF /\ componentName \in DOMAIN index.records
            /\ index.records[componentName].listed
            /\ index.records[componentName].version # <<>>
         THEN index.records[componentName].version
    ELSE IF VLatest \in tree[componentName]
         THEN DeclaredVersion(VLatest)
         ELSE <<>>

NoCall == [called |-> FALSE]

\* nothing is running: the registry changes between commands only
Quiescent == rsCall = NoCall /\ stack = <<>> /\ crCommand = [command |-> "none"]

\* the maintainers merge a publication: the index record of c changes
UpdateIndex(c, r) ==
    /\ Quiescent
    /\ registryIndex.records[c] # r
    /\ registryIndex' = [registryIndex EXCEPT !.records[c] = r]
    /\ UNCHANGED <<registry, rsVars, notRs>>

\* the index becomes unreachable, or reachable again
IndexReachability ==
    /\ Quiescent
    /\ registryIndex' = [registryIndex EXCEPT !.up = ~registryIndex.up]
    /\ UNCHANGED <<registry, rsVars, notRs>>

\* a version directory of c appears in the registry
PublishVersion(c, tag) ==
    /\ Quiescent
    /\ tag \notin registry[c]
    /\ registry' = [registry EXCEPT ![c] = registry[c] \cup {tag}]
    /\ UNCHANGED <<registryIndex, rsVars, notRs>>

\* the versions a caller may ask for
RequestedVersions == {VLatest, V100, V231, VBad}

CallResolveComponentVersion(c, version) ==
    /\ rsCall = NoCall
    /\ rsCall' = [called |-> TRUE, fn |-> "resolveComponentVersion",
                  name |-> c, version |-> version,
                  result |-> ResolveComponentVersion(c, version, registryIndex)]
    /\ UNCHANGED <<rsPrevious, envVars, notRs>>

CallGetLatestVersion(c) ==
    /\ rsCall = NoCall
    /\ rsCall' = [called |-> TRUE, fn |-> "getLatestVersion",
                  name |-> c, version |-> VLatest,
                  result |-> GetLatestVersion(c, registryIndex, registry)]
    /\ UNCHANGED <<rsPrevious, envVars, notRs>>

ResolveReturn ==
    /\ rsCall # NoCall
    /\ rsPrevious' = rsCall
    /\ rsCall' = NoCall
    /\ UNCHANGED <<envVars, notRs>>

InitResolve ==
    /\ registryIndex \in [up : BOOLEAN, records : [Components -> IndexRecords]]
    /\ registry = [c \in Components |-> {}]
    /\ rsCall = NoCall
    /\ rsPrevious = NoCall
    /\ DetIdle
    /\ SvIdle
    /\ RdIdle
    /\ AddIdle
    /\ CrIdle
    /\ LibIdle

NextResolve ==
    \/ \E c \in Components, r \in IndexRecords : UpdateIndex(c, r)
    \/ IndexReachability
    \/ \E c \in Components : PublishVersion(c, VLatest)
    \/ \E c \in Components, v \in RequestedVersions :
          CallResolveComponentVersion(c, v)
    \/ \E c \in Components : CallGetLatestVersion(c)
    \/ ResolveReturn

SpecResolve == InitResolve /\ [][NextResolve]_vars

\* C4: a call with a version other than "latest" returns that version
\* unchanged, whatever the index holds; so a concrete version obtained by
\* resolving "latest" resolves to itself when it is handed back, even after
\* the index has moved on.
C4_PinnedUnchanged ==
    /\ rsCall # NoCall /\ rsCall.version # VLatest
          => rsCall.result = rsCall.version
    /\ (/\ rsCall # NoCall /\ rsPrevious # NoCall
        /\ rsCall.fn = "resolveComponentVersion"
        /\ rsPrevious.fn = "resolveComponentVersion"
        /\ rsPrevious.version = VLatest
        /\ rsPrevious.result # VLatest
        /\ rsCall.name = rsPrevious.name
        /\ rsCall.version = rsPrevious.result)
          => rsCall.result = rsPrevious.result

\* the round trip, with the index listing another version by the second call
C4_Witness ==
    /\ rsCall # NoCall /\ rsPrevious # NoCall
    /\ rsCall.fn = "resolveComponentVersion"
    /\ rsPrevious.fn = "resolveComponentVersion"
    /\ rsPrevious.version = VLatest
    /\ rsPrevious.result = V100
    /\ rsCall.name = rsPrevious.name
    /\ rsCall.version = V100
    /\ rsCall.result = V100
    /\ registryIndex.up
    /\ registryIndex.records[rsCall.name] = Listed(V231)

\* C6: asked for "latest" while the index is unreachable or has no version
\* for the component, and the "latest" directory holds a manifest, the
\* resolver (resolveComponentVersion, and getLatestVersion of the update
\* command) answers with the version that manifest declares.
C6_FallbackToLatestManifest ==
    (/\ rsCall # NoCall
     /\ rsCall.version = VLatest
     /\ \/ ~registryIndex.up
        \/ ~registryIndex.records[rsCall.name].listed
        \/ registryIndex.records[rsCall.name].version = <<>>
     /\ VLatest \in registry[rsCall.name])
        => rsCall.result = DeclaredVersion(VLatest)

(***************************************************************************)
(* scm add <component-name> [--force] [--dry-run] [--skip-deps].           *)
(* A running command is a frame of the stack; a registry dependency is     *)
(* installed by a child process, "scm add <dep> --skip-deps", while the    *)
(* parent waits in execSync.  The project has a components.json; the files *)
(* of a manifest pass validateFileTargets.                                 *)
(***************************************************************************)
NoItem == [name |-> <<>>, version |-> <<>>, registryDependencies |-> <<>>,
           dependencies |-> <<>>, files |-> <<>>, cssVars |-> FALSE]

\* what the manifests of the two components hold besides their registry
\* dependencies: u/ab has two files, an npm dependency and CSS variables
Clsx == <<"c", "l", "s", "x">>
FilesOf(c) ==
    IF c = IdA THEN <<"ab.tsx", "ab-lib.ts">>
    ELSE IF c = IdC THEN <<"ef.tsx">> ELSE <<"cd.tsx">>
NpmDependenciesOf(c) == IF c = IdA THEN <<Clsx>> ELSE <<>>
HasCssVars(c) == c = IdA

\* the manifest served from the directory tag of component c
Manifest(c, tag) ==
    [name |-> c, version |-> DeclaredVersion(tag),
     registryDependencies |-> manifestDeps[c],
     dependencies |-> NpmDependenciesOf(c), files |-> FilesOf(c),
     cssVars |-> HasCssVars(c)]

Options == [skipDeps : BOOLEAN, force : BOOLEAN, dryRun : BOOLEAN]

\* a process at the first statement of the action, its argument parsed
Frame(componentName, options) ==
    LET parsed == ParseComponentName(componentName)
    IN  [componentName |-> componentName, options |-> options,
         pc |-> "start", isValid |-> parsed.isValid,
         namespace |-> parsed.namespace, name |-> parsed.name,
         version |-> parsed.version,
         resolvedVersion |-> <<>>, componentUrl |-> <<>>, fileUrl |-> <<>>,
         registryItem |-> NoItem, fromCache |-> FALSE, registry |-> <<>>,
         installedFiles |-> {}, notRemoved |-> {}, tracked |-> FALSE,
         code |-> 0]

Top == stack[Len(stack)]

ReplaceTop(frame) == [stack EXCEPT ![Len(stack)] = frame]

Exit(frame, code) == [frame EXCEPT !.pc = "exit", !.code = code]

Range(seq) == {seq[i] : i \in 1..Len(seq)}

\* checkCircular with both tests dropped
CheckCircularNever(dep, currentDeps, visited) == FALSE

\* checkCircular(dep, visited) of the dependency loop
CheckCircular(dep, currentDeps, visited) ==
    dep \in visited \/ dep \in currentDeps

\* a record that writes back the new entry alone
TrackForgettingOthers(tracking, componentName, version) ==
    [id \in {componentName} |-> version]

\* a record that writes back a ledger read before the children ran
TrackDroppingChildren(tracking, componentName, version) ==
    [id \in (DOMAIN tracking \ Range(started)) \cup {componentName} |->
        IF id = componentName THEN version ELSE tracking[id]]

\* trackInstalledComponent: read the ledger, set one entry, write it back
TrackInstalledComponent(tracking, componentName, version) ==
    [id \in DOMAIN tracking \cup {componentName} |->
        IF id = componentName THEN version ELSE tracking[id]]

\* a user types scm add
RunAdd(componentName, options) ==
    /\ Quiescent
    /\ stack' = <<Frame(componentName, options)>>
    /\ flagged' = {}
    /\ started' = <<>>
    /\ UNCHANGED <<manifestDeps, cache, ledger, exitCode, projVars,
                   envVars, notAdd>>

\* a command that goes on to the file phase whatever its options
AfterMetadataAlways(options) == "files"

\* where the command goes after the metadata phase: --dry-run prints what
\* would be installed and returns
AfterMetadata(options) == IF options.dryRun THEN "exit" ELSE "files"

\* from the validation of the parsed argument to the end of the metadata
\* phase: resolve the version, take the manifest from the cache or the
\* registry, stop there on --dry-run
AddFetch ==
    /\ stack # <<>>
    /\ Top.pc = "start"
    /\ LET id == Join(Top.namespace, Top.name)
           resolvedVersion ==
               ResolveComponentVersion(id, Top.version, registryIndex)
           known == id \in DOMAIN registry
           cached == IF known THEN cache[id] ELSE NoItem
           hit == /\ ~Top.options.force
                  /\ cached # NoItem
                  /\ cached.version = resolvedVersion
           served == known /\ resolvedVersion \in registry[id]
           next == AfterMetadata(Top.options)
       IN  IF ~Top.isValid
           THEN /\ stack' = ReplaceTop(Exit(Top, 1))
                /\ UNCHANGED cache
           ELSE IF Top.version # VLatest /\ ~ValidateVersion(Top.version)
           THEN /\ stack' = ReplaceTop(Exit(Top, 1))
                /\ UNCHANGED cache
           ELSE IF hit
           THEN /\ stack' = ReplaceTop(
                    [Top EXCEPT !.resolvedVersion = resolvedVersion,
                                !.registryItem = cached,
                                !.fromCache = TRUE,
                                !.pc = next])
                /\ UNCHANGED cache
           ELSE IF ~served
           THEN /\ stack' = ReplaceTop(Exit(
                    [Top EXCEPT !.resolvedVersion = resolvedVersion,
                                !.componentUrl = resolvedVersion], 1))
                /\ UNCHANGED cache
           ELSE /\ stack' = ReplaceTop(
                    [Top EXCEPT !.resolvedVersion = resolvedVersion,
                                !.componentUrl = resolvedVersion,
                                !.registryItem = Manifest(id, resolvedVersion),
                                !.pc = next])
                /\ cache' = [cache EXCEPT ![id] = Manifest(id, resolvedVersion)]
    /\ UNCHANGED <<manifestDeps, ledger, flagged, started, exitCode,
                   projVars, envVars, notAdd>>

\* the rollback of the file phase with its removals dropped
RolledBackNothing(files, installedFiles, notRemoved) == files

\* the rollback of the file phase: every path of installedFiles is removed,
\* except those whose removal fails
RolledBack(files, installedFiles, notRemoved) ==
    [p \in DOMAIN files \ (installedFiles \ notRemoved) |-> files[p]]

\* the file phase: each file in turn is downloaded from the directory of
\* the resolved version, validated and written.  failAt is the file at
\* which one of these throws (0: none does; the file at which it throws is
\* not written); kept are the existing files the user declines to
\* overwrite; notRemoved are the files the rollback fails to remove
AddFiles(failAt, kept, notRemoved) ==
    /\ stack # <<>>
    /\ Top.pc = "files"
    /\ LET files == Top.registryItem.files
           done == IF failAt = 0 THEN Len(files) ELSE failAt - 1
           installedFiles == {files[i] : i \in 1..done} \ kept
           after == [p \in DOMAIN projectFiles \cup installedFiles |->
                        IF p \in installedFiles THEN Top.resolvedVersion
                        ELSE projectFiles[p]]
           frame == [Top EXCEPT !.fileUrl = Top.resolvedVersion,
                                !.installedFiles = installedFiles]
       IN  /\ failAt \in 0..Len(files)
           /\ kept \subseteq {files[i] : i \in 1..done} \cap DOMAIN projectFiles
           /\ notRemoved \subseteq (IF failAt = 0 THEN {} ELSE installedFiles)
           /\ IF failAt = 0
              THEN /\ projectFiles' = after
                   /\ stack' = ReplaceTop(
                         [frame EXCEPT
                             !.pc = IF Top.options.skipDeps
                                    THEN "deps" ELSE "npm"])
              ELSE /\ projectFiles' =
                         RolledBack(after, installedFiles, notRemoved)
                   /\ stack' = ReplaceTop(Exit(
                         [frame EXCEPT !.notRemoved = notRemoved], 1))
    /\ UNCHANGED <<manifestDeps, cache, ledger, flagged, started, exitCode,
                   ledgerFile, npmPackages, cssFile, envVars, notAdd>>

\* without --skip-deps: the dependency lists are resolved and the npm
\* dependencies installed; a failure of the package manager is reported
\* and the command goes on
AddNpm(ok) ==
    /\ stack # <<>>
    /\ Top.pc = "npm"
    /\ LET resolvedDeps == ResolveDependencies(Top.registryItem.dependencies,
                               Top.registryItem.registryDependencies)
       IN  /\ npmPackages' = IF ok THEN npmPackages \cup Range(resolvedDeps.npm)
                             ELSE npmPackages
           /\ stack' = ReplaceTop([Top EXCEPT !.pc = "deps",
                                              !.registry = resolvedDeps.registry])
    /\ UNCHANGED <<manifestDeps, cache, ledger, flagged, started, exitCode,
                   ledgerFile, projectFiles, cssFile, envVars, notAdd>>

\* one turn of the registry dependency loop
AddDependency ==
    /\ stack # <<>>
    /\ Top.pc = "deps"
    /\ Top.registry # <<>>
    /\ LET dep == Head(Top.registry)
           currentDeps == {Join(Top.namespace, Top.name)}
       IN  IF CheckCircular(dep, currentDeps, {})
           THEN /\ flagged' = flagged \cup {dep}
                /\ stack' = ReplaceTop([Top EXCEPT !.registry = Tail(@)])
                /\ UNCHANGED started
           ELSE /\ started' = Append(started, dep)
                /\ stack' = Append(ReplaceTop([Top EXCEPT !.pc = "execSync"]),
                       Frame(dep, [skipDeps |-> TRUE, force |-> FALSE,
                                   dryRun |-> FALSE]))
                /\ UNCHANGED flagged
    /\ UNCHANGED <<manifestDeps, cache, ledger, exitCode, projVars,
                   envVars, notAdd>>

\* a loop that gives up at the first dependency that fails
ChildExitAborting ==
    /\ Len(stack) >= 2
    /\ Top.pc = "exit"
    /\ stack[Len(stack) - 1].pc = "execSync"
    /\ stack' = [SubSeq(stack, 1, Len(stack) - 1) EXCEPT
                    ![Len(stack) - 1] =
                        IF Top.code = 0
                        THEN [@ EXCEPT !.pc = "deps", !.registry = Tail(@)]
                        ELSE [@ EXCEPT !.pc = "exit", !.code = 1]]
    /\ UNCHANGED <<manifestDeps, cache, ledger, flagged, started, exitCode,
                   projVars, envVars, notAdd>>

\* the child process ends; whatever its exit code, the loop goes on
ChildExit ==
    /\ Len(stack) >= 2
    /\ Top.pc = "exit"
    /\ stack[Len(stack) - 1].pc = "execSync"
    /\ stack' = [SubSeq(stack, 1, Len(stack) - 1) EXCEPT
                    ![Len(stack) - 1] = [@ EXCEPT !.pc = "deps",
                                                  !.registry = Tail(@)]]
    /\ UNCHANGED <<manifestDeps, cache, ledger, flagged, started, exitCode,
                   projVars, envVars, notAdd>>

\* after the loop: the CSS variables of the manifest are merged into
\* globals.css (a failure there ends the command), then the ledger entry is
\* written; a ledger that cannot be read or written is a warning
AddTrack(cssOk, ok) ==
    /\ stack # <<>>
    /\ Top.pc = "deps"
    /\ Top.registry = <<>>
    /\ LET id == Join(Top.namespace, Top.name)
           css == Top.registryItem.cssVars
           tracked == ok /\ ledgerFile # "corrupt"
       IN  IF css /\ ~cssOk
           THEN /\ stack' = ReplaceTop(Exit(Top, 1))
                /\ UNCHANGED <<ledger, ledgerFile, cssFile>>
           ELSE /\ cssFile' = IF css THEN cssFile \cup {id} ELSE cssFile
                /\ ledger' = IF tracked
                             THEN TrackInstalledComponent(ledger, id,
                                      Top.resolvedVersion)
                             ELSE ledger
                /\ ledgerFile' = IF tracked THEN "ok" ELSE ledgerFile
                /\ stack' = ReplaceTop(Exit([Top EXCEPT !.tracked = tracked], 0))
    /\ UNCHANGED <<manifestDeps, cache, flagged, started, exitCode,
                   projectFiles, npmPackages, envVars, notAdd>>

\* the command the user typed ends
CommandExit ==
    /\ Len(stack) = 1
    /\ Top.pc = "exit"
    /\ exitCode' = Top.code
    /\ stack' = <<>>
    /\ flagged' = {}
    /\ started' = <<>>
    /\ UNCHANGED <<manifestDeps, cache, ledger, projVars, envVars, notAdd>>

\* what the user may type after scm add
AddArguments ==
    {IdA, IdB, Card, AtVersion(IdA, V100), AtVersion(IdA, VBad)}

\* the option sets tried
AddOptions ==
    {o \in Options : o.dryRun => ~o.skipDeps /\ ~o.force}

\* the registryDependencies a manifest may declare
DependencyLists ==
    {<<>>, <<IdB>>, <<IdA, IdB>>, <<IdB, IdA>>, <<IdB, IdB>>, <<Card>>}

InitInstall ==
    /\ registryIndex \in
          {[up |-> up, records |-> [c \in Components |->
                                     IF c = IdA THEN r ELSE Listed(V100)]] :
              up \in BOOLEAN, r \in {NotListed, Listed(V100)}}
    /\ registry \in
          {[c \in Components |-> IF c = IdA THEN tags ELSE {V100, VLatest}] :
              tags \in {{V100}, {V100, VLatest}}}
    /\ manifestDeps \in
          {[c \in Components |-> IF c = IdA THEN a ELSE b] :
              a \in DependencyLists, b \in {<<>>, <<IdA>>}}
    /\ cache = [c \in Components |-> NoItem]
    /\ ledger = <<>>
    /\ ledgerFile = "missing"
    /\ projectFiles = <<>>
    /\ npmPackages = {}
    /\ cssFile = {}
    /\ stack = <<>>
    /\ flagged = {}
    /\ started = <<>>
    /\ exitCode = -1
    /\ DetIdle
    /\ SvIdle
    /\ RdIdle
    /\ RsIdle
    /\ CrIdle
    /\ LibIdle

AddStep ==
    \/ AddFetch
    \/ \E failAt \in {0, 1} : AddFiles(failAt, {}, {})
    \/ \E ok \in BOOLEAN : AddNpm(ok)
    \/ AddDependency
    \/ ChildExit
    \/ \E cssOk, ok \in BOOLEAN : AddTrack(cssOk, ok)
    \/ CommandExit

NextInstall ==
    \/ \E a \in AddArguments, o \in AddOptions : RunAdd(a, o)
    \/ AddStep

SpecInstall == InitInstall /\ [][NextInstall]_vars

\* C5: a command that asked for "latest" (no version, or @latest) while the
\* reachable index lists the component with version V works with V: V is the
\* resolved version, the manifest is fetched from the directory V or is the
\* cached manifest of version V, and the files are downloaded from V.
C5_LatestResolvesToIndexVersion ==
    \A i \in 1..Len(stack) :
        LET f == stack[i]
            id == Join(f.namespace, f.name)
        IN  (/\ f.pc # "start"
             /\ f.isValid
             /\ f.version = VLatest
             /\ registryIndex.up
             /\ id \in Components
             /\ registryIndex.records[id].listed
             /\ registryIndex.records[id].version # <<>>)
            => LET V == registryIndex.records[id].version
               IN  /\ f.resolvedVersion = V
                   /\ f.componentUrl \in {<<>>, V}
                   /\ f.registryItem # NoItem => f.registryItem.version = V
                   /\ f.fileUrl \in {<<>>, V}
                   /\ f.pc = "files" => f.registryItem.version = V
                   /\ f.pc = "deps" => f.fileUrl = V

\* scm add u/ab with the index listing 1.0.0: manifest and files come from
\* 1.0.0
C5_Witness ==
    /\ Len(stack) = 1
    /\ Top.componentName = IdA
    /\ Top.pc = "deps"
    /\ registryIndex.up
    /\ registryIndex.records[IdA] = Listed(V100)
    /\ Top.resolvedVersion = V100
    /\ Top.componentUrl = V100
    /\ Top.registryItem.version = V100
    /\ Top.fileUrl = V100

\* C7: the ledger never holds the literal "latest" as a version.
C7_LedgerNeverLatest ==
    \A id \in DOMAIN ledger : ledger[id] # VLatest

(***************************************************************************)
(* The dependency loop, with the registry serving every manifest, and a    *)
(* running process never stopping for ever between two of its steps.       *)
(***************************************************************************)
InitCircular ==
    /\ registryIndex = [up |-> TRUE,
                        records |-> [c \in Components |-> Listed(V100)]]
    /\ registry = [c \in Components |-> {V100, VLatest}]
    /\ manifestDeps \in
          {[c \in Components |-> IF c = IdA THEN a ELSE b] :
              a \in DependencyLists, b \in {<<>>, <<IdA>>}}
    /\ cache = [c \in Components |-> NoItem]
    /\ ledger = <<>>
    /\ ledgerFile = "missing"
    /\ projectFiles = <<>>
    /\ npmPackages = {}
    /\ cssFile = {}
    /\ stack = <<>>
    /\ flagged = {}
    /\ started = <<>>
    /\ exitCode = -1
    /\ DetIdle
    /\ SvIdle
    /\ RdIdle
    /\ RsIdle
    /\ CrIdle
    /\ LibIdle

FairSpecCircular ==
    InitCircular /\ [][NextInstall]_vars /\ WF_vars(AddStep)

\* the command has run its dependency loop up to the entries still in
\* registry
InLoop(f) ==
    /\ ~f.options.skipDeps
    /\ \/ f.pc \in {"deps", "execSync"}
       \/ f.pc = "exit" /\ f.code = 0 /\ ~f.options.dryRun

C9_Safe ==
    /\ Len(stack) <= 2
    /\ \A i, j \in 1..Len(started) : i # j => started[i] # started[j]
    /\ flagged \cap Range(started) = {}
    /\ stack # <<>> =>
          LET f == stack[1]
              self == Join(f.namespace, f.name)
              all == ResolveDependencies(<<>>,
                        f.registryItem.registryDependencies).registry
          IN  /\ self \notin Range(started)
              /\ (InLoop(f) /\ self \in Range(all)
                            /\ self \notin Range(f.registry))
                    => self \in flagged

ReservedCatalog ==
    { <<"b", "u", "t", "t", "o", "n">>,
      <<"c", "a", "r", "d">>,
      <<"d", "i", "a", "l", "o", "g">>,
      <<"i", "n", "p", "u", "t">>,
      <<"f", "o", "r", "m">>,
      <<"d", "a", "s", "h", "b", "o", "a", "r", "d", "-", "0", "1">>,
      <<"s", "i", "d", "e", "b", "a", "r", "-", "0", "1">>,
      <<"l", "o", "g", "i", "n", "-", "0", "1">>,
      <<"c", "h", "a", "r", "t", "-", "a", "r", "e", "a", "-", "d", "e", "f", "a", "u", "l", "t">>,
      <<"c", "h", "a", "r", "t", "-", "b", "a", "r", "-", "d", "e", "f", "a", "u", "l", "t">>,
      <<"c", "a", "l", "e", "n", "d", "a", "r", "-", "0", "1">>,
      <<"c", "a", "l", "e", "n", "d", "a", "r", "-", "0", "2">>,
      <<"t", "h", "e", "m", "e", "-", "d", "a", "y", "l", "i", "g", "h", "t">>,
      <<"t", "h", "e", "m", "e", "-", "m", "i", "d", "n", "i", "g", "h", "t">> }

MyButton == <<"m", "y", "-", "b", "u", "t", "t", "o", "n">>
Lib      == <<"l", "i", "b">>
BadName  == <<"B", "a", "d", "_", "N", "a", "m", "e">>

NoCommand == [command |-> "none"]

\* fetched: the command has asked the registry for something; error: what
\* the command reported before it exited, "none" if nothing
Ran(command, name, code, created, fetched, error) ==
    [command |-> command, name |-> name, code |-> code, created |-> created,
     fetched |-> fetched, error |-> error]

\* what the file system answers: everything works, the parent directory is
\* not writable, or writing the files fails after the directory was made
IoOutcomes == {"ok", "notWritable", "writeFails"}

\* from "if (await fs.pathExists(componentDir))" to the end of the action,
\* the same statements in create and in fork
MakeComponentDir(command, name, force, io) ==
    IF name \in componentDirs /\ ~force
    THEN /\ crCommand' = Ran(command, name, 1, FALSE, command = "fork",
                             "exists")
         /\ UNCHANGED componentDirs
    ELSE IF io = "notWritable"
    THEN /\ crCommand' = Ran(command, name, 1, FALSE, command = "fork",
                             "io")
         /\ componentDirs' = componentDirs \ {name}
    ELSE /\ crCommand' = Ran(command, name, IF io = "ok" THEN 0 ELSE 1, TRUE,
                             command = "fork",
                             IF io = "ok" THEN "none" ELSE "io")
         /\ componentDirs' = componentDirs \cup {name}

\* create.action(componentName, options)
Create(componentName, force, io) ==
    /\ Quiescent
    /\ IF ~ValidateComponentName(componentName)
       THEN /\ crCommand' = Ran("create", componentName, 1, FALSE, FALSE,
                                  "validation")
            /\ UNCHANGED componentDirs
       ELSE MakeComponentDir("create", componentName, force, io)
    /\ UNCHANGED <<envVars, notCr>>

\* fork.action(componentName, options); newName is options.name, empty when
\* the option is absent; loggedIn is whether getGitHubUser answers
Fork(componentName, newName, force, loggedIn, io) ==
    /\ Quiescent
    /\ LET parsed == ParseComponentName(componentName)
           id == Join(parsed.namespace, parsed.name)
           resolvedVersion ==
               ResolveComponentVersion(id, parsed.version, registryIndex)
           served == id \in Components /\ resolvedVersion \in registry[id]
           newComponentName ==
               IF newName = <<>> THEN parsed.name \o <<"-", "f", "o", "r", "k">>
               ELSE newName
       IN  IF ~parsed.isValid
           THEN /\ crCommand' = Ran("fork", newName, 1, FALSE, FALSE,
                                    "validation")
                /\ UNCHANGED componentDirs
           ELSE IF ~served
           THEN /\ crCommand' = Ran("fork", newComponentName, 1, FALSE, TRUE,
                                    "fetch")
                /\ UNCHANGED componentDirs
           ELSE IF ~ValidateComponentName(newComponentName)
           THEN /\ crCommand' = Ran("fork", newComponentName, 1, FALSE, TRUE,
                                    "validation")
                /\ UNCHANGED componentDirs
           ELSE IF ~loggedIn
           THEN /\ crCommand' = Ran("fork", newComponentName, 1, FALSE, TRUE,
                                    "authentication")
                /\ UNCHANGED componentDirs
           ELSE MakeComponentDir("fork", newComponentName, force, io)
    /\ UNCHANGED <<envVars, notCr>>

\* the command is over
CommandDone ==
    /\ crCommand # NoCommand
    /\ crCommand' = NoCommand
    /\ UNCHANGED <<componentDirs, envVars, notCr>>

\* the user removes a component directory
RemoveDir(name) ==
    /\ Quiescent
    /\ name \in componentDirs
    /\ componentDirs' = componentDirs \ {name}
    /\ UNCHANGED <<crCommand, envVars, notCr>>

\* the names tried for a new component
NewNames ==
    {n \in ReservedCatalog : Len(n) <= 6} \cup {MyButton, Lib, BadName}

\* what the user may type after scm fork
ForkArguments == {IdA, AtVersion(IdA, V231), Card}

InitCreate ==
    /\ registryIndex = [up |-> TRUE,
                        records |-> [c \in Components |-> Listed(V100)]]
    /\ registry = [c \in Components |-> {V100, VLatest}]
    /\ componentDirs = {}
    /\ crCommand = NoCommand
    /\ DetIdle
    /\ SvIdle
    /\ RdIdle
    /\ RsIdle
    /\ AddIdle
    /\ LibIdle

NextCreate ==
    \/ \E n \in NewNames, force \in BOOLEAN, io \in IoOutcomes :
          Create(n, force, io)
    \/ \E a \in ForkArguments, n \in NewNames \cup {<<>>}, force \in BOOLEAN,
          loggedIn \in BOOLEAN, io \in IoOutcomes :
          Fork(a, n, force, loggedIn, io)
    \/ CommandDone
    \/ \E n \in NewNames : RemoveDir(n)

SpecCreate == InitCreate /\ [][NextCreate]_vars

\* C10: a create or a fork whose new name is in the vendor's catalog exits
\* with an error and makes no component directory.
C10_ReservedRejected ==
    (crCommand # NoCommand /\ crCommand.name \in ReservedCatalog)
        => crCommand.code = 1 /\ ~crCommand.created

\* the name a dependency string ends with, after its last "/"
DependencyName(dep) == Split(dep, "/")[Len(Split(dep, "/"))]

\* C11: no install through scm add is started for a registry dependency
\* whose name is in the vendor's catalog (it goes to the vendor's installer
\* instead).
C11_ReservedDependencyNotStarted ==
    \A i \in 1..Len(started) : DependencyName(started[i]) \notin ReservedCatalog

(***************************************************************************)
(* The install ledger read back, and scm update [component] [--version v]  *)
(* [--force] [--dry-run] [--check-only] [--skip-deps], which installs      *)
(* through a child process "scm add <component>@<version>".                *)
(***************************************************************************)
\* getCurrentVersion(componentName, cwd): null (empty here) when the ledger
\* is missing, cannot be parsed or has no version for the component
GetCurrentVersion(componentName) ==
    IF ledgerFile = "ok" /\ componentName \in DOMAIN ledger
    THEN ledger[componentName]
    ELSE <<>>

\* getInstalledComponents(cwd): no entries when the ledger is missing or
\* cannot be parsed
GetInstalledComponents ==
    IF ledgerFile = "ok" THEN ledger ELSE <<>>

DigitChars == <<"0", "1", "2", "3", "4", "5", "6", "7", "8", "9">>

DigitValue(c) == (CHOOSE i \in 1..10 : DigitChars[i] = c) - 1

\* the number written by the digits s[i..j]
RECURSIVE NumberOf(_, _, _)
NumberOf(s, i, j) ==
    IF j < i THEN 0 ELSE 10 * NumberOf(s, i, j - 1) + DigitValue(s[j])

\* semver.parse of a string of the form major.minor.patch; the version
\* strings of this model carry no prerelease and no build
SemverParse(version) ==
    LET a == SkipClass(version, 1, Digits)
        b == SkipClass(version, a + 1, Digits)
        c == SkipClass(version, b + 1, Digits)
        n == Len(version)
    IN  IF /\ a > 1 /\ a <= n /\ version[a] = "."
           /\ b > a + 1 /\ b <= n /\ version[b] = "."
           /\ c > b + 1 /\ c = n + 1
        THEN SemVer(NumberOf(version, 1, a - 1),
                    NumberOf(version, a + 1, b - 1),
                    NumberOf(version, b + 1, n), <<>>, <<>>)
        ELSE NoVersion

\* isVersionGreater(v1, v2) throws on a string that is no version
VersionsComparable(v1, v2) ==
    SemverValid(SemverParse(v1)) /\ SemverValid(SemverParse(v2))

IsVersionGreater(v1, v2) == SemverGt(SemverParse(v1), SemverParse(v2))

NoUpdateOptions ==
    [version |-> <<>>, force |-> FALSE, dryRun |-> FALSE,
     checkOnly |-> FALSE, skipDeps |-> FALSE]

\* the option sets tried with scm update
UpdateOptions ==
    {NoUpdateOptions,
     [NoUpdateOptions EXCEPT !.dryRun = TRUE],
     [NoUpdateOptions EXCEPT !.force = TRUE],
     [NoUpdateOptions EXCEPT !.force = TRUE, !.dryRun = TRUE],
     [NoUpdateOptions EXCEPT !.checkOnly = TRUE],
     [NoUpdateOptions EXCEPT !.version = V231],
     [NoUpdateOptions EXCEPT !.version = VBad]}

\* the options of the child process performUpdate starts
ChildOptions(options) ==
    [skipDeps |-> options.skipDeps, force |-> FALSE, dryRun |-> FALSE]

\* a user types scm update, with a component name or (empty) without
RunUpdate(componentName, options) ==
    /\ Quiescent
    /\ stack' = <<[Frame(componentName, options) EXCEPT
                      !.pc = IF componentName = <<>>
                             THEN "updateAll" ELSE "update"]>>
    /\ flagged' = {}
    /\ started' = <<>>
    /\ UNCHANGED <<manifestDeps, cache, ledger, exitCode, projVars,
                   envVars, notAdd>>

\* updateComponent up to performUpdate
UpdateComponent ==
    /\ stack # <<>>
    /\ Top.pc = "update"
    /\ LET options == Top.options
           id == Join(Top.namespace, Top.name)
           currentVersion == GetCurrentVersion(Top.componentName)
           targetVersion ==
               IF options.version # <<>> THEN options.version
               ELSE GetLatestVersion(id, registryIndex, registry)
           greater == IsVersionGreater(targetVersion, currentVersion)
           shouldUpdate == greater \/ options.force \/ options.version # <<>>
       IN  IF ~Top.isValid
           THEN stack' = ReplaceTop(Exit(Top, 1))
           ELSE IF options.version # <<>> /\ ~ValidateVersion(options.version)
           THEN stack' = ReplaceTop(Exit(Top, 1))
           ELSE IF id \notin Components
           THEN stack' = ReplaceTop(Exit(Top, 1))
           ELSE IF targetVersion = <<>> \/ currentVersion = <<>>
           THEN stack' = ReplaceTop(Exit(Top, 1))
           ELSE IF ~VersionsComparable(targetVersion, currentVersion)
           THEN stack' = ReplaceTop(Exit(Top, 1))
           ELSE IF options.checkOnly \/ ~shouldUpdate \/ options.dryRun
           THEN stack' = ReplaceTop(Exit(Top, 0))
           ELSE stack' = Append(
                    ReplaceTop([Top EXCEPT !.pc = "performUpdate"]),
                    Frame(AtVersion(Top.componentName, targetVersion),
                          ChildOptions(options)))
    /\ UNCHANGED <<manifestDeps, cache, ledger, flagged, started, exitCode,
                   projVars, envVars, notAdd>>

\* execSync of performUpdate returns, or throws on a child that failed
UpdateChildExit ==
    /\ Len(stack) >= 2
    /\ Top.pc = "exit"
    /\ stack[Len(stack) - 1].pc = "performUpdate"
    /\ stack' = [SubSeq(stack, 1, Len(stack) - 1) EXCEPT
                    ![Len(stack) - 1] =
                        Exit(@, IF Top.code = 0 THEN 0 ELSE 1)]
    /\ UNCHANGED <<manifestDeps, cache, ledger, flagged, started, exitCode,
                   projVars, envVars, notAdd>>

\* the updates updateAllComponents finds, as arguments of scm add, in the
\* order of the components cs
RECURSIVE UpdatesOf(_, _, _)
UpdatesOf(cs, installed, options) ==
    IF cs = <<>> THEN <<>>
    ELSE LET c == Head(cs)
             latestVersion ==
                 IF options.version # <<>> THEN options.version
                 ELSE GetLatestVersion(c, registryIndex, registry)
             wanted ==
                 /\ c \in DOMAIN installed
                 /\ ParseComponentName(c).isValid
                 /\ latestVersion # <<>>
                 /\ options.version = <<>> =>
                       /\ VersionsComparable(latestVersion, installed[c])
                       /\ IsVersionGreater(latestVersion, installed[c])
         IN  (IF wanted THEN <<AtVersion(c, latestVersion)>> ELSE <<>>)
             \o UpdatesOf(Tail(cs), installed, options)

\* updateAllComponents up to its loop over the updates
UpdateAllComponents ==
    /\ stack # <<>>
    /\ Top.pc = "updateAll"
    /\ LET installedComponents == GetInstalledComponents
           updates == UpdatesOf(<<IdA, IdB>>, installedComponents, Top.options)
       IN  stack' = ReplaceTop(
              IF \/ DOMAIN installedComponents = {}
                 \/ updates = <<>>
                 \/ Top.options.checkOnly
                 \/ Top.options.dryRun
              THEN Exit(Top, 0)
              ELSE [Top EXCEPT !.pc = "updates", !.registry = updates])
    /\ UNCHANGED <<manifestDeps, cache, ledger, flagged, started, exitCode,
                   projVars, envVars, notAdd>>

\* one turn of the loop over the updates, and its end
UpdateNext ==
    /\ stack # <<>>
    /\ Top.pc = "updates"
    /\ stack' = IF Top.registry = <<>>
                THEN ReplaceTop(Exit(Top, 0))
                ELSE Append(ReplaceTop([Top EXCEPT !.pc = "performUpdates"]),
                            Frame(Head(Top.registry),
                                  ChildOptions(Top.options)))
    /\ UNCHANGED <<manifestDeps, cache, ledger, flagged, started, exitCode,
                   projVars, envVars, notAdd>>

\* the child of one update ends; a failure is reported and the loop goes on
UpdatesChildExit ==
    /\ Len(stack) >= 2
    /\ Top.pc = "exit"
    /\ stack[Len(stack) - 1].pc = "performUpdates"
    /\ stack' = [SubSeq(stack, 1, Len(stack) - 1) EXCEPT
                    ![Len(stack) - 1] = [@ EXCEPT !.pc = "updates",
                                                  !.registry = Tail(@)]]
    /\ UNCHANGED <<manifestDeps, cache, ledger, flagged, started, exitCode,
                   projVars, envVars, notAdd>>

\* between two commands the ledger file is damaged (a truncated write, a
\* hand edit)
CorruptLedger ==
    /\ Quiescent
    /\ ledgerFile = "ok"
    /\ ledgerFile' = "corrupt"
    /\ UNCHANGED <<manifestDeps, cache, ledger, stack, flagged, started,
                   exitCode, projectFiles, npmPackages, cssFile,
                   envVars, notAdd>>

\* between two commands the user writes a file of their own into the project
UserContent == <<"user">>

UserWritesFile(path) ==
    /\ Quiescent
    /\ path \notin DOMAIN projectFiles
    /\ projectFiles' = [p \in DOMAIN projectFiles \cup {path} |->
                           IF p = path THEN UserContent ELSE projectFiles[p]]
    /\ UNCHANGED <<manifestDeps, cache, ledger, stack, flagged, started,
                   exitCode, ledgerFile, npmPackages, cssFile,
                   envVars, notAdd>>

\* the arguments and options tried in this part
ProjectArguments == {IdA, IdB, AtVersion(IdA, V100)}
ProjectOptions == {o \in AddOptions : ~o.force}
UserPaths == {"ab.tsx"}

InitProject ==
    /\ registryIndex \in
          {[up |-> up, records |-> [c \in Components |->
                                     IF c = IdA THEN Listed(V231)
                                     ELSE Listed(V100)]] : up \in BOOLEAN}
    /\ registry = [c \in Components |->
                      IF c = IdA THEN Tags ELSE {V100, VLatest}]
    /\ manifestDeps = [c \in Components |-> IF c = IdA THEN <<IdB>> ELSE <<>>]
    /\ cache = [c \in Components |-> NoItem]
    /\ ledger = <<>>
    /\ ledgerFile = "missing"
    /\ projectFiles = <<>>
    /\ npmPackages = {}
    /\ cssFile = {}
    /\ stack = <<>>
    /\ flagged = {}
    /\ started = <<>>
    /\ exitCode = -1
    /\ DetIdle
    /\ SvIdle
    /\ RdIdle
    /\ RsIdle
    /\ CrIdle
    /\ LibIdle

NextProject ==
    \/ \E a \in ProjectArguments, o \in ProjectOptions : RunAdd(a, o)
    \/ \E a \in {IdA, <<>>}, o \in UpdateOptions : RunUpdate(a, o)
    \/ AddFetch
    \/ \E failAt \in 0..2, kept, notRemoved \in SUBSET {"ab.tsx", "ab-lib.ts"} :
          AddFiles(failAt, kept, notRemoved)
    \/ \E ok \in BOOLEAN : AddNpm(ok)
    \/ AddDependency
    \/ ChildExit
    \/ \E cssOk, ok \in BOOLEAN : AddTrack(cssOk, ok)
    \/ CommandExit
    \/ UpdateComponent
    \/ UpdateChildExit
    \/ UpdateAllComponents
    \/ UpdateNext
    \/ UpdatesChildExit
    \/ CorruptLedger
    \/ \E p \in UserPaths : UserWritesFile(p)

SpecProject == InitProject /\ [][NextProject]_vars

\* the step is the ledger step of the innermost command, ending in success
RecordStep ==
    /\ stack # <<>>
    /\ Top.pc = "deps"
    /\ Top.registry = <<>>
    /\ Len(stack') = Len(stack)
    /\ stack'[Len(stack)].pc = "exit"
    /\ stack'[Len(stack)].code = 0

\* C12: the ledger changes only when an install records its component; a
\* record that is written leaves the ledger mapping the component to the
\* installed version, and no record adds, drops or alters the entry of
\* another component.
C12_RecordIsUpsert ==
    [][/\ (ledger' # ledger \/ ledgerFile' # ledgerFile)
             => (RecordStep \/ (ledgerFile = "ok" /\ ledgerFile' = "corrupt"))
       /\ RecordStep =>
             LET id == Join(Top.namespace, Top.name)
             IN  /\ stack'[Len(stack)].tracked =>
                       /\ ledgerFile' = "ok"
                       /\ id \in DOMAIN ledger'
                       /\ ledger'[id] = Top.resolvedVersion
                 /\ ~stack'[Len(stack)].tracked => ledger' = ledger
                 /\ DOMAIN ledger' \ {id} = DOMAIN ledger \ {id}
                 /\ \A other \in DOMAIN ledger \ {id} :
                       ledger'[other] = ledger[other]]_vars

\* scm update u/ab found 2.3.1 newer than the recorded version, and the
\* install it started has recorded 2.3.1 in place of it, next to the entry
\* of u/cd
C12_Witness ==
    /\ Len(stack) = 2
    /\ stack[1].pc = "performUpdate"
    /\ stack[1].options = NoUpdateOptions
    /\ Top.pc = "exit"
    /\ Top.tracked
    /\ ledger[IdA] = V231
    /\ IdB \in DOMAIN ledger
    /\ ledger[IdB] = V100

\* the command is an install that went through its ledger step
Recorded(f) ==
    /\ f.pc = "exit"
    /\ f.code = 0
    /\ f.fileUrl # <<>>

\* C13: a missing or unparsable ledger reads as no entries, and an install
\* that completes on such a ledger leaves a ledger with its entry behind,
\* so no completed install leaves an unparsable ledger.
C13_UnreadableLedgerIsEmpty ==
    /\ ledgerFile # "ok" =>
          /\ DOMAIN GetInstalledComponents = {}
          /\ \A c \in Components : GetCurrentVersion(c) = <<>>
    /\ \A i \in 1..Len(stack) : Recorded(stack[i]) => ledgerFile # "corrupt"

\* C15: when the file phase fails, the command ends with an error, every
\* file the batch had written is gone (unless its removal failed too), and
\* the other files of the project are as before.
C15_FailedBatchRolledBack ==
    [][(/\ stack # <<>>
        /\ Top.pc = "files"
        /\ Len(stack') = Len(stack)
        /\ stack'[Len(stack)].pc = "exit")
         => LET f == stack'[Len(stack)]
            IN  /\ f.code = 1
                /\ \A p \in f.installedFiles \ f.notRemoved :
                      p \notin DOMAIN projectFiles'
                /\ \A p \in DOMAIN projectFiles \ f.installedFiles :
                      /\ p \in DOMAIN projectFiles'
                      /\ projectFiles'[p] = projectFiles[p]
                /\ UNCHANGED <<ledger, ledgerFile, npmPackages, cssFile>>]_vars

\* scm add u/ab failed at its second file: the first had been written and
\* has been removed
C15_Witness ==
    /\ Len(stack) = 1
    /\ Top.pc = "exit"
    /\ Top.code = 1
    /\ Top.installedFiles = {"ab.tsx"}
    /\ Top.notRemoved = {}
    /\ "ab.tsx" \notin DOMAIN projectFiles

\* C25: when the file phase fails, every file the project had before the
\* command is still there with the content it had.
C25_FailedBatchKeepsExistingFiles ==
    [][(/\ stack # <<>>
        /\ Top.pc = "files"
        /\ Len(stack') = Len(stack)
        /\ stack'[Len(stack)].pc = "exit")
         => \A p \in DOMAIN projectFiles :
               /\ p \in DOMAIN projectFiles'
               /\ projectFiles'[p] = projectFiles[p]]_vars

\* C20: while a command run with --dry-run is running, no component file is
\* written, no package and no dependency is installed, no CSS variable is
\* applied, the ledger is untouched and no child process is started.
C20_DryRunChangesNothing ==
    [][(stack # <<>> /\ stack[1].options.dryRun)
         => /\ UNCHANGED <<projectFiles, npmPackages, cssFile, ledger,
                           ledgerFile, started>>
            /\ Len(stack') <= 1]_vars

\* scm add u/ab --dry-run has fetched the manifest and is at its end
C20_Witness ==
    /\ Len(stack) = 1
    /\ Top.options.dryRun
    /\ Top.pc = "exit"
    /\ Top.code = 0
    /\ Top.componentName = IdA
    /\ Top.registryItem.files = FilesOf(IdA)
    /\ projectFiles = <<>>
    /\ ledger = <<>>

\* C16: a create or a fork that ended with a validation error has asked the
\* registry for nothing and has made no directory.
C16_ValidationBeforeEffects ==
    (crCommand.command # "none" /\ crCommand.error = "validation")
       => ~crCommand.fetched /\ ~crCommand.created

(***************************************************************************)
(* withRetry (lib/utils.ts): a network operation run under the retry       *)
(* policy, behind the rate limiter.  An error is its message, a string.    *)
(***************************************************************************)
\* DEFAULT_RETRY_CONFIG, the delays in milliseconds
DefaultMaxRetries == 3
BaseDelay == 1000
MaxDelay == 10000
BackoffMultiplier == 2

\* new RateLimiter(10, 60000): the requests one key may make in a window
MaxRequests == 10

RECURSIVE Power(_, _)
Power(b, e) == IF e = 0 THEN 1 ELSE b * Power(b, e - 1)

\* the delay slept after the failed attempt number attempt (from 0)
DelayAfter(attempt) ==
    Min({BaseDelay * Power(BackoffMultiplier, attempt), MaxDelay})

\* a number as a template string writes it
RECURSIVE NumberString(_)
NumberString(n) ==
    IF n < 10 THEN <<DigitChars[n + 1]>>
    ELSE NumberString(n \div 10) \o <<DigitChars[(n % 10) + 1]>>

\* the messages of the errors the operation throws
Status401 == <<"c", "o", "d", "e", " ", "4", "0", "1">>
Status403 == <<"c", "o", "d", "e", " ", "4", "0", "3">>
Status404 == <<"c", "o", "d", "e", " ", "4", "0", "4">>
Status500 == <<"c", "o", "d", "e", " ", "5", "0", "0">>
NetworkError == <<"N", "e", "t", "w", "o", "r", "k">>
ErrorMessages == {Status401, Status403, Status404, Status500, NetworkError}

\* the names the callers give their operations
FetchIndex == <<"i", "n", "d", "e", "x">>
FetchFile == <<"f", "i", "l", "e">>
OperationNames == {FetchIndex, FetchFile}

\* no error is excluded from retry
NeverExcluded(message) == FALSE

\* the errors withRetry rethrows at once: 401, 403 and 404
ExcludedFromRetry(message) ==
    \/ Includes(message, <<"4", "0", "1">>)
    \/ Includes(message, <<"4", "0", "3">>)
    \/ Includes(message, <<"4", "0", "4">>)

\* the error thrown after the last attempt
FinalMessage(operationName, maxRetries, lastMessage) ==
    operationName
      \o <<" ", "f", "a", "i", "l", "e", "d", " ", "a", "f", "t", "e", "r", " ">>
      \o NumberString(maxRetries + 1)
      \o <<" ", "a", "t", "t", "e", "m", "p", "t", "s", ":", " ">>
      \o lastMessage

NoRetry == [state |-> "none"]

\* what one invocation of the operation does: it resolves, or it throws
Resolved == [ok |-> TRUE]
Rejected(message) == [ok |-> FALSE, message |-> message]
Outcomes == {Resolved} \cup {Rejected(m) : m \in ErrorMessages}

\* RateLimiter.canMakeRequest(key) and what it leaves in the limiter
CanMakeRequest(limiter, key) ==
    key \notin DOMAIN limiter \/ limiter[key] < MaxRequests

AfterRequest(limiter, key) ==
    IF key \notin DOMAIN limiter
    THEN [k \in DOMAIN limiter \cup {key} |->
            IF k = key THEN 1 ELSE limiter[k]]
    ELSE IF limiter[key] < MaxRequests
    THEN [limiter EXCEPT ![key] = @ + 1]
    ELSE limiter

\* the call, up to the loop: the configuration is merged over the defaults
\* and the rate limiter is asked; a refused call waits for the window
WithRetry(operationName, config) ==
    /\ retry.state \in {"none", "returned", "thrown"}
    /\ retry' = [state |-> IF CanMakeRequest(rateLimiter, operationName)
                           THEN "attempt" ELSE "waiting",
                 operationName |-> operationName,
                 maxRetries |-> IF "maxRetries" \in DOMAIN config
                                THEN config.maxRetries
                                ELSE DefaultMaxRetries,
                 attempt |-> 0,
                 outcomes |-> <<>>,
                 delay |-> 0]
    /\ rateLimiter' = AfterRequest(rateLimiter, operationName)
    /\ UNCHANGED <<notRt>>

\* waitForNextWindow: the interval asks the limiter again
WaitForNextWindow ==
    /\ retry.state = "waiting"
    /\ CanMakeRequest(rateLimiter, retry.operationName)
    /\ retry' = [retry EXCEPT !.state = "attempt"]
    /\ rateLimiter' = AfterRequest(rateLimiter, retry.operationName)
    /\ UNCHANGED <<notRt>>

\* time passes: the oldest request of a key leaves the window
WindowSlides(key) ==
    /\ key \in DOMAIN rateLimiter
    /\ rateLimiter[key] > 0
    /\ rateLimiter' = [rateLimiter EXCEPT ![key] = @ - 1]
    /\ UNCHANGED <<retry, notRt>>

\* one turn of the loop: the operation is invoked; its value is returned,
\* or its error is rethrown, or the loop sleeps and goes on, or the loop is
\* left and the final error thrown
Attempt(outcome) ==
    /\ retry.state = "attempt"
    /\ retry.attempt <= retry.maxRetries
    /\ LET outcomes == Append(retry.outcomes, outcome) IN
       retry' =
         IF outcome.ok
         THEN [retry EXCEPT !.state = "returned", !.outcomes = outcomes]
         ELSE IF ExcludedFromRetry(outcome.message)
         THEN [state |-> "thrown", operationName |-> retry.operationName,
               maxRetries |-> retry.maxRetries, attempt |-> retry.attempt,
               outcomes |-> outcomes, delay |-> retry.delay,
               error |-> outcome.message]
         ELSE IF retry.attempt = retry.maxRetries
         THEN [state |-> "thrown", operationName |-> retry.operationName,
               maxRetries |-> retry.maxRetries, attempt |-> retry.attempt,
               outcomes |-> outcomes, delay |-> retry.delay,
               error |-> FinalMessage(retry.operationName, retry.maxRetries,
                                      outcome.message)]
         ELSE [retry EXCEPT !.attempt = @ + 1, !.outcomes = outcomes,
                            !.delay = DelayAfter(retry.attempt)]
    /\ UNCHANGED <<rateLimiter, notRt>>

\* the configurations handed to withRetry: none by the commands
RetryConfigs == {<<>>, [maxRetries |-> 0], [maxRetries |-> 1]}

InitRetry ==
    /\ retry = NoRetry
    /\ rateLimiter = <<>>
    /\ DetIdle
    /\ SvIdle
    /\ RdIdle
    /\ EnvIdle
    /\ RsIdle
    /\ AddIdle
    /\ CrIdle
    /\ ChIdle
    /\ PlIdle
    /\ AuIdle
    /\ PbIdle
    /\ WrIdle

NextRetry ==
    \/ \E operationName \in OperationNames, config \in RetryConfigs :
          WithRetry(operationName, config)
    \/ WaitForNextWindow
    \/ \E key \in OperationNames : WindowSlides(key)
    \/ \E outcome \in Outcomes : Attempt(outcome)

SpecRetry == InitRetry /\ [][NextRetry]_vars

\* the invocations of the operation the call has made
Invocations == Len(retry.outcomes)

\* an invocation that failed with 401, 403 or 404
AuthorizationOrNotFound(outcome) ==
    /\ ~outcome.ok
    /\ outcome.message \in {Status401, Status403, Status404}

\* C14: withRetry invokes the operation at most maxRetries + 1 times, four
\* under the default configuration; no invocation follows a success or an
\* error of 401, 403 or 404, the success being returned and that error
\* rethrown as it is; and when every invocation fails with another error the
\* call throws, after maxRetries + 1 invocations, an error whose message
\* starts with the operation's name and gives that number of attempts.
C14_RetryPolicy ==
    retry.state # "none" =>
      /\ Invocations <= retry.maxRetries + 1
      /\ retry.maxRetries = DefaultMaxRetries => Invocations <= 4
      /\ \A i \in 1..Invocations :
            /\ retry.outcomes[i].ok
                  => i = Invocations /\ retry.state = "returned"
            /\ AuthorizationOrNotFound(retry.outcomes[i])
                  => /\ i = Invocations
                     /\ retry.state = "thrown"
                     /\ retry.error = retry.outcomes[i].message
      /\ retry.state = "returned" => retry.outcomes[Invocations].ok
      /\ (/\ retry.state = "thrown"
          /\ ~AuthorizationOrNotFound(retry.outcomes[Invocations]))
            => /\ Invocations = retry.maxRetries + 1
               /\ StartsWith(retry.error, retry.operationName)
               /\ Includes(retry.error,
                           NumberString(Invocations)
                             \o <<" ", "a", "t", "t", "e", "m", "p", "t", "s">>)

\* a call under the defaults whose four invocations all failed with a
\* server error, the last sleep having been of four seconds
C14_Witness ==
    /\ retry.state = "thrown"
    /\ retry.maxRetries = DefaultMaxRetries
    /\ Invocations = 4
    /\ \A i \in 1..4 : retry.outcomes[i] = Rejected(Status500)
    /\ retry.delay = 4000

(***************************************************************************)
(* The cache (lib/cache.ts): one JSON file per key under ~/.scm/cache,     *)
(* named by the MD5 hash of the key, holding data, timestamp and ttl.      *)
(* Time is counted in half days.                                           *)
(***************************************************************************)
MaxClock == 4       \* the clock runs from 0 to MaxClock
MaxData  == 2       \* the values cached are 1..MaxData

\* CACHE_TTL, 24 hours
CACHE_TTL == 2

CacheKeys == {<<"r", "e", "g", "i", "s", "t", "r", "y", "-", "i", "n", "d", "e", "x">>,
              <<"c", "o", "m", "p", "o", "n", "e", "n", "t", "-", "u", "-", "a", "b">>}

\* the file of a key: absent, not JSON, or an entry
MissingFile == [file |-> "missing"]
CorruptFile == [file |-> "corrupt"]
CacheEntry(data, timestamp, ttl) ==
    [file |-> "entry", data |-> data, timestamp |-> timestamp, ttl |-> ttl]

\* the test that lets every entry through
NeverExpired(entry, time) == FALSE

\* "Date.now() - entry.timestamp > entry.ttl"
Expired(entry, time) == time - entry.timestamp > entry.ttl

\* what Cache.get found and what it returned; null is hit = FALSE
Got(key, found, hit, data) ==
    [called |-> TRUE, key |-> key, found |-> found, hit |-> hit, data |-> data]

\* Cache.delete(key)
CacheDelete(dir, key) == [dir EXCEPT ![key] = MissingFile]

\* Cache.get(key)
CacheGet(key) ==
    /\ LET entry == cacheDir[key] IN
       IF entry = MissingFile
       THEN /\ cacheGot' = Got(key, "missing", FALSE, 0)
            /\ UNCHANGED cacheDir
       ELSE IF entry = CorruptFile
       THEN /\ cacheGot' = Got(key, "corrupt", FALSE, 0)
            /\ cacheDir' = CacheDelete(cacheDir, key)
       ELSE IF Expired(entry, now)
       THEN /\ cacheGot' = Got(key, "expired", FALSE, 0)
            /\ cacheDir' = CacheDelete(cacheDir, key)
       ELSE /\ cacheGot' = Got(key, "entry", TRUE, entry.data)
            /\ UNCHANGED cacheDir
    /\ UNCHANGED <<now, notCh>>

\* Cache.set(key, data, ttl); a write that fails changes nothing
CacheSet(key, data, ttl, ok) ==
    /\ cacheDir' = IF ok
                   THEN [cacheDir EXCEPT ![key] = CacheEntry(data, now, ttl)]
                   ELSE cacheDir
    /\ UNCHANGED <<now, cacheGot, notCh>>

\* Cache.clear()
CacheClear ==
    /\ cacheDir' = [k \in CacheKeys |-> MissingFile]
    /\ UNCHANGED <<now, cacheGot, notCh>>

\* an entry file is damaged on the disk
FileDamaged(key) ==
    /\ cacheDir[key] # MissingFile
    /\ cacheDir' = [cacheDir EXCEPT ![key] = CorruptFile]
    /\ UNCHANGED <<now, cacheGot, notCh>>

\* half a day passes
Tick ==
    /\ now < MaxClock
    /\ now' = now + 1
    /\ UNCHANGED <<cacheDir, cacheGot, notCh>>

\* the lifetimes handed to Cache.set: the default, and a shorter one
Ttls == {CACHE_TTL, 1}

InitCache ==
    /\ cacheDir = [k \in CacheKeys |-> MissingFile]
    /\ now = 0
    /\ cacheGot = [called |-> FALSE]
    /\ DetIdle
    /\ SvIdle
    /\ RdIdle
    /\ EnvIdle
    /\ RsIdle
    /\ AddIdle
    /\ CrIdle
    /\ RtIdle
    /\ PlIdle
    /\ AuIdle
    /\ PbIdle
    /\ WrIdle

NextCache ==
    \/ \E key \in CacheKeys : CacheGet(key)
    \/ \E key \in CacheKeys, data \in 1..MaxData, ttl \in Ttls,
          ok \in BOOLEAN : CacheSet(key, data, ttl, ok)
    \/ CacheClear
    \/ \E key \in CacheKeys : FileDamaged(key)
    \/ Tick

SpecCache == InitCache /\ [][NextCache]_vars

MaxExpiresIn == 8   \* the device code lives 1..MaxExpiresIn seconds

\* the abort timer of one request
FetchTimeout == 30000

PendingText ==
    <<"a", "u", "t", "h", "o", "r", "i", "z", "a", "t", "i", "o", "n", "_",
      "p", "e", "n", "d", "i", "n", "g">>

ExpiredMessage ==
    <<"A", "u", "t", "h", "o", "r", "i", "z", "a", "t", "i", "o", "n", " ",
      "c", "o", "d", "e", " ", "h", "a", "s", " ", "e", "x", "p", "i", "r",
      "e", "d", ".", " ", "P", "l", "e", "a", "s", "e", " ", "t", "r", "y",
      " ", "a", "g", "a", "i", "n", ".">>

DeniedMessage ==
    <<"A", "u", "t", "h", "o", "r", "i", "z", "a", "t", "i", "o", "n", " ",
      "w", "a", "s", " ", "d", "e", "n", "i", "e", "d", " ", "b", "y", " ",
      "t", "h", "e", " ", "u", "s", "e", "r", ".">>

UnsupportedMessage ==
    <<"D", "e", "v", "i", "c", "e", " ", "f", "l", "o", "w", " ", "i", "s",
      " ", "n", "o", "t", " ", "s", "u", "p", "p", "o", "r", "t", "e", "d",
      " ", "b", "y", " ", "t", "h", "i", "s", " ", "G", "i", "t", "H", "u",
      "b", " ", "a", "p", "p", ".">>

TimedOutMessage ==
    <<"A", "u", "t", "h", "o", "r", "i", "z", "a", "t", "i", "o", "n", " ",
      "t", "i", "m", "e", "d", " ", "o", "u", "t", ".", " ", "P", "l", "e",
      "a", "s", "e", " ", "t", "r", "y", " ", "a", "g", "a", "i", "n", ".">>

ApiErrorPrefix ==
    <<"G", "i", "t", "H", "u", "b", " ", "A", "P", "I", " ", "e", "r", "r",
      "o", "r", ":", " ">>

AbortMessage ==
    <<"T", "h", "i", "s", " ", "o", "p", "e", "r", "a", "t", "i", "o", "n",
      " ", "w", "a", "s", " ", "a", "b", "o", "r", "t", "e", "d">>

BadRequestPending ==
    <<"4", "0", "0", " ", "B", "a", "d", " ", "R", "e", "q", "u", "e", "s",
      "t", " ", "-", " ", "{", "\"", "e", "r", "r", "o", "r", "\"", ":",
      "\"", "a", "u", "t", "h", "o", "r", "i", "z", "a", "t", "i", "o",
      "n", "_", "p", "e", "n", "d", "i", "n", "g", "\"", "}">>

ServerError ==
    <<"5", "0", "2", " ", "B", "a", "d", " ", "G", "a", "t", "e", "w", "a",
      "y", " ", "-", " ">>

Token == <<"g", "h", "o", "_", "1">>

\* what one request to the token endpoint comes to: a JSON body with an
\* error code (and, for slow_down, maybe an interval), a JSON body with an
\* access token, a JSON body with neither, a response that is not ok with
\* its status and text, or an abort after FetchTimeout
\* the interval field of a slow_down answer, 0 when it has none
SlowDownIntervals == {0, 3, 7}

Answers ==
    {[kind |-> "error", error |-> e, interval |-> 0] :
        e \in {"authorization_pending", "expired_token", "access_denied",
               "unsupported_grant_type"}}
    \cup {[kind |-> "error", error |-> "slow_down", interval |-> i] :
             i \in SlowDownIntervals}
    \cup {[kind |-> "token", access_token |-> Token],
          [kind |-> "empty"],
          [kind |-> "notOk", text |-> BadRequestPending],
          [kind |-> "notOk", text |-> ServerError],
          [kind |-> "aborted"]}

\* how long a request takes
Durations(answer) ==
    IF answer.kind = "aborted" THEN {FetchTimeout} ELSE {0, 1000}

\* "while (Date.now() < expirationTime)"
BeforeExpiration(time, expirationTime) == time < expirationTime

\* the error the try block throws on an answer, <<>> when it throws none
ThrownOn(answer) ==
    IF answer.kind = "notOk" THEN ApiErrorPrefix \o answer.text
    ELSE IF answer.kind = "aborted" THEN AbortMessage
    ELSE IF answer.kind # "error" THEN <<>>
    ELSE IF answer.error = "expired_token" THEN ExpiredMessage
    ELSE IF answer.error = "access_denied" THEN DeniedMessage
    ELSE IF answer.error = "unsupported_grant_type" THEN UnsupportedMessage
    ELSE <<>>

\* a catch block that swallows every error
NeverRethrown(message) == FALSE

\* the catch block rethrows every error but one that mentions
\* authorization_pending
Rethrown(message) == message # <<>> /\ ~Includes(message, PendingText)

\* the call, up to the loop
PollForAuthorization(interval, expiresIn) ==
    /\ poll.state = "none"
    /\ poll' = [state |-> "polling",
                interval |-> interval,
                expirationTime |-> pollNow + expiresIn * 1000,
                currentInterval |-> interval * 1000,
                polls |-> 0,
                polledAt |-> 0,
                answer |-> [kind |-> "none"]]
    /\ UNCHANGED <<pollNow, notPl>>

\* one turn of the loop: the test, the request, the answer, the sleep
Poll(answer, duration) ==
    /\ poll.state = "polling"
    /\ IF ~BeforeExpiration(pollNow, poll.expirationTime)
       THEN /\ poll' = [state |-> "thrown", interval |-> poll.interval,
                        expirationTime |-> poll.expirationTime,
                        currentInterval |-> poll.currentInterval,
                        polls |-> poll.polls, polledAt |-> poll.polledAt,
                        answer |-> poll.answer, error |-> TimedOutMessage]
            /\ UNCHANGED pollNow
       ELSE LET polled == [poll EXCEPT !.polls = @ + 1, !.polledAt = pollNow,
                                       !.answer = answer]
                message == ThrownOn(answer)
                currentInterval ==
                    IF answer.kind = "error" /\ answer.error = "slow_down"
                    THEN (IF answer.interval # 0 THEN answer.interval
                          ELSE poll.interval + 5) * 1000
                    ELSE poll.currentInterval
            IN  IF Rethrown(message)
                THEN /\ poll' = [state |-> "thrown",
                                 interval |-> poll.interval,
                                 expirationTime |-> poll.expirationTime,
                                 currentInterval |-> poll.currentInterval,
                                 polls |-> polled.polls,
                                 polledAt |-> pollNow,
                                 answer |-> answer, error |-> message]
                     /\ pollNow' = pollNow + duration
                ELSE IF answer.kind = "token"
                THEN /\ poll' = [state |-> "returned",
                                 interval |-> poll.interval,
                                 expirationTime |-> poll.expirationTime,
                                 currentInterval |-> poll.currentInterval,
                                 polls |-> polled.polls,
                                 polledAt |-> pollNow,
                                 answer |-> answer,
                                 token |-> answer.access_token]
                     /\ pollNow' = pollNow + duration
                ELSE /\ poll' = [polled EXCEPT
                                   !.currentInterval = currentInterval]
                     /\ pollNow' = pollNow + duration + currentInterval
    /\ UNCHANGED notPl

PollStep == \E answer \in Answers : \E duration \in Durations(answer) :
               Poll(answer, duration)

InitPoll ==
    /\ poll = [state |-> "none"]
    /\ pollNow = 0
    /\ DetIdle
    /\ SvIdle
    /\ RdIdle
    /\ EnvIdle
    /\ RsIdle
    /\ AddIdle
    /\ CrIdle
    /\ RtIdle
    /\ ChIdle
    /\ AuIdle
    /\ PbIdle
    /\ WrIdle

NextPoll ==
    \/ \E interval \in {1, 2}, expiresIn \in 1..MaxExpiresIn :
          PollForAuthorization(interval, expiresIn)
    \/ PollStep

\* the loop is a running function: its next turn is taken
FairSpecPoll == InitPoll /\ [][NextPoll]_vars /\ WF_vars(PollStep)

\* C23: the wait between two polls is never lowered: a turn of the loop
\* that goes on leaves the current interval at least what it was.
C23_IntervalOnlyGrows ==
    [][(poll.state = "polling" /\ poll'.state = "polling")
          => poll'.currentInterval >= poll.currentInterval]_vars

PollOver == poll.state \in {"returned", "thrown"}

\* what holds of the call at every moment
C18_Safe ==
    poll.state # "none" =>
      \* no request starts at or after the expiry
      /\ poll.polls > 0 => poll.polledAt < poll.expirationTime
      \* pending, slow_down: the loop goes on
      /\ (/\ poll.answer.kind = "error"
          /\ poll.answer.error \in {"authorization_pending", "slow_down"}
          /\ pollNow < poll.expirationTime)
            => poll.state = "polling"
      \* a token: returned at once
      /\ poll.answer.kind = "token"
            => poll.state = "returned" /\ poll.token = poll.answer.access_token
      /\ poll.state = "returned" => poll.answer.kind = "token"
      \* expired, denied, unsupported: thrown at once
      /\ (/\ poll.answer.kind = "error"
          /\ poll.answer.error \in {"expired_token", "access_denied",
                                    "unsupported_grant_type"})
            => /\ poll.state = "thrown"
               /\ poll.error = CASE poll.answer.error = "expired_token"
                                      -> ExpiredMessage
                                 [] poll.answer.error = "access_denied"
                                      -> DeniedMessage
                                 [] OTHER -> UnsupportedMessage
      \* the timeout: thrown only once the expiry has passed
      /\ (poll.state = "thrown" /\ poll.error = TimedOutMessage)
            => pollNow >= poll.expirationTime

\* C18: the device-flow polling goes on while the server answers
\* authorization_pending, returns the token of the first answer that has
\* one, throws at once on expired_token, access_denied and
\* unsupported_grant_type, throws the timeout only once the expiry has
\* passed, starts no request at or after the expiry, and always ends.
C18_BoundedPolling ==
    /\ []C18_Safe
    /\ (poll.state = "polling" ~> PollOver)

\* the server answered authorization_pending until the code expired
C18_Witness ==
    /\ poll.state = "thrown"
    /\ poll.error = TimedOutMessage
    /\ poll.polls >= 2
    /\ poll.answer.kind = "error"
    /\ poll.answer.error = "authorization_pending"

(***************************************************************************)
(* Login and logout (commands/login.ts, lib/config.ts, lib/github.ts).     *)
(* ~/.scm/config.json is a JSON object; a key it does not have is None.    *)
(***************************************************************************)
MaxIv == 2          \* the initialisation vectors drawn are 1..MaxIv

None == [set |-> FALSE]

Tokens == {<<"g", "h", "p", "_", "1">>, <<"g", "h", "p", "_", "2">>,
           <<"g", "h", "o", "_", "3">>}

\* encryptData(token): the vector drawn and the AES text of the token under
\* the key of this machine; decryptData gives the token back
EncryptData(token, iv) == [set |-> TRUE, iv |-> iv, text |-> token]
DecryptData(encryptedData) == encryptedData.text

NoConfigFile == [exists |-> FALSE]
ConfigFile(encryptedToken, token) ==
    [exists |-> TRUE, encryptedToken |-> encryptedToken, token |-> token]

\* configSchema.parse: an object with the optional key encryptedToken; zod
\* drops every other key
SchemaParse(content) == [encryptedToken |-> content.encryptedToken]

\* readConfig()
ReadConfig(file) ==
    IF ~file.exists THEN [encryptedToken |-> None] ELSE SchemaParse(file)

\* writeConfig(config): writeJson leaves out a key whose value is undefined
\* and writes a key the schema does not know
WriteConfig(config) ==
    ConfigFile(config.encryptedToken,
               IF "token" \in DOMAIN config THEN config.token ELSE None)

\* setSecureToken(token): the file becomes { encryptedToken }
SetSecureToken(token, iv) == ConfigFile(EncryptData(token, iv), None)

\* getSecureToken(): the token, or None for null
GetSecureToken(file) ==
    IF ~file.exists THEN None
    ELSE IF ~SchemaParse(file).encryptedToken.set THEN None
    ELSE [set |-> TRUE, token |-> DecryptData(SchemaParse(file).encryptedToken)]

\* logout() of lib/github.ts: config.token = undefined, written back
Logout(file) ==
    LET config == ReadConfig(file) IN
    WriteConfig([encryptedToken |-> config.encryptedToken, token |-> None])

\* the first statements of authenticateWithGitHub: the same write
ClearedForFlow(file) == Logout(file)

AuthRan(command, code, loggedIn) ==
    [command |-> command, code |-> code, loggedIn |-> loggedIn]

\* scm login --check
LoginCheck ==
    /\ authCommand' = AuthRan("check", 0, GetSecureToken(configFile).set)
    /\ UNCHANGED <<configFile, notAu>>

\* scm login --token <token>; valid is what validateToken answers
LoginWithToken(token, valid, iv) ==
    /\ IF valid
       THEN /\ configFile' = SetSecureToken(token, iv)
            /\ authCommand' = AuthRan("login", 0, TRUE)
       ELSE /\ authCommand' = AuthRan("login", 1, FALSE)
            /\ UNCHANGED configFile
    /\ UNCHANGED notAu

\* scm login [--force]: valid is what validateToken answers for the stored
\* token, granted whether the device flow ends with a token
Login(force, valid, granted, token, iv) ==
    /\ IF GetSecureToken(configFile).set /\ ~force /\ valid
       THEN /\ authCommand' = AuthRan("login", 0, TRUE)
            /\ UNCHANGED configFile
       ELSE IF granted
       THEN /\ configFile' = SetSecureToken(token, iv)
            /\ authCommand' = AuthRan("login", 0, TRUE)
       ELSE /\ configFile' = ClearedForFlow(configFile)
            /\ authCommand' = AuthRan("login", 1, FALSE)
    /\ UNCHANGED notAu

\* getGitHubUser() in a new process, as fork and publish call it: getOctokit
\* reads config.token; without one the device flow runs and its token is
\* written as config.token; getOctokit then reads the file again
GetGitHubUser(granted, token) ==
    /\ LET config == ReadConfig(configFile) IN
       IF "token" \in DOMAIN config /\ config.token.set
       THEN /\ authCommand' = AuthRan("getGitHubUser", 0, TRUE)
            /\ UNCHANGED configFile
       ELSE IF ~granted
       THEN /\ configFile' = ClearedForFlow(configFile)
            /\ authCommand' = AuthRan("getGitHubUser", 1, FALSE)
       ELSE LET cleared == ReadConfig(ClearedForFlow(configFile))
                written == WriteConfig(
                               [encryptedToken |-> cleared.encryptedToken,
                                token |-> [set |-> TRUE, token |-> token]])
                again == ReadConfig(written)
            IN  /\ configFile' = written
                /\ authCommand' =
                     IF "token" \in DOMAIN again /\ again.token.set
                     THEN AuthRan("getGitHubUser", 0, TRUE)
                     ELSE AuthRan("getGitHubUser", 1, FALSE)
    /\ UNCHANGED notAu

\* scm logout [--all] [--force]; confirmed is the answer to the prompt, or
\* --force
LogoutCmd(confirmed) ==
    /\ IF confirmed
       THEN /\ configFile' = Logout(configFile)
            /\ authCommand' = AuthRan("logout", 0, FALSE)
       ELSE /\ authCommand' = AuthRan("cancelled", 0, FALSE)
            /\ UNCHANGED configFile
    /\ UNCHANGED notAu

InitAuth ==
    /\ configFile = NoConfigFile
    /\ authCommand = [command |-> "none"]
    /\ DetIdle
    /\ SvIdle
    /\ RdIdle
    /\ EnvIdle
    /\ RsIdle
    /\ AddIdle
    /\ CrIdle
    /\ RtIdle
    /\ ChIdle
    /\ PlIdle
    /\ PbIdle
    /\ WrIdle

NextAuth ==
    \/ LoginCheck
    \/ \E token \in Tokens, valid \in BOOLEAN, iv \in 1..MaxIv :
          LoginWithToken(token, valid, iv)
    \/ \E force, valid, granted \in BOOLEAN, token \in Tokens,
          iv \in 1..MaxIv : Login(force, valid, granted, token, iv)
    \/ \E granted \in BOOLEAN, token \in Tokens : GetGitHubUser(granted, token)
    \/ \E confirmed \in BOOLEAN : LogoutCmd(confirmed)

SpecAuth == InitAuth /\ [][NextAuth]_vars

\* the credentials that can be read out of the config file
StoredCredentials ==
    IF ~configFile.exists THEN {}
    ELSE {k \in {"encryptedToken", "token"} : configFile[k].set}

\* C19: when a confirmed logout has completed, the config file holds no
\* credential, whichever login stored it, and getSecureToken, which the
\* login check asks, finds none.
C19_LogoutClearsCredentials ==
    authCommand.command = "logout"
       => StoredCredentials = {} /\ ~GetSecureToken(configFile).set

\* C29: a login or an authentication on demand whose device flow is not
\* granted (denied, expired, timed out, no network) leaves every token that
\* was stored before it stored as it was.
C29_FailedAttemptKeepsCredential ==
    [][(/\ \/ \E force, valid \in BOOLEAN, token \in Tokens, iv \in 1..MaxIv :
                 Login(force, valid, FALSE, token, iv)
           \/ \E token \in Tokens : GetGitHubUser(FALSE, token)
        /\ authCommand'.code = 1)
         => \A k \in StoredCredentials :
               /\ k \in StoredCredentials'
               /\ configFile'[k] = configFile[k]]_vars

(***************************************************************************)
(* scm publish (commands/publish.ts), run in the component directory the   *)
(* version analysis reads.  The registry holds the version directories of  *)
(* the component on its base branch; an upload goes to a directory on a    *)
(* new branch.                                                             *)
(***************************************************************************)
V001 == SemVer(0, 0, 1, <<>>, <<>>)
V100s == SemVer(1, 0, 0, <<>>, <<>>)
V110s == SemVer(1, 1, 0, <<>>, <<>>)
V100rc == SemVer(1, 0, 0, <<0>>, <<>>)

\* "/^\d+\.\d+\.\d+$/.test(name)"
PlainVersion(v) == v.valid /\ v.prerelease = <<>> /\ v.build = <<>>

\* getLatestComponentVersion: the first of the plain version directories
\* sorted by major, minor, patch, descending; NoVersion for null, which is
\* also what an error gives
GetLatestComponentVersion(dirs, reachable) ==
    LET versionDirs == {v \in dirs : PlainVersion(v)} IN
    IF ~reachable \/ versionDirs = {} THEN NoVersion
    ELSE CHOOSE v \in versionDirs :
            \A w \in versionDirs : CompareMain(v, w) >= 0

PubIdle == [pc |-> "idle"]

\* the locals of a publish at the version analysis
Publishing(baseVersion, latestRemoteVersion, manual, yes) ==
    [pc |-> "analyse", baseVersion |-> baseVersion,
     latestRemoteVersion |-> latestRemoteVersion, manual |-> manual,
     yes |-> yes]

\* a publish that is over: its exit code, the version directory it uploaded
\* to (NoVersion if none), and whether it was cancelled at the prompt
Published(p, code, uploaded, cancelled) ==
    [pc |-> "done", baseVersion |-> p.baseVersion,
     latestRemoteVersion |-> p.latestRemoteVersion, manual |-> p.manual,
     yes |-> p.yes, code |-> code, uploaded |-> uploaded,
     cancelled |-> cancelled]

\* publish.action up to the version analysis: registry.json is read and
\* validated, the user and the latest remote version are asked for; with
\* --version the analysis is skipped.  version is options.version, NoVersion
\* when absent; local is the version of registry.json, NoVersion when absent
Publish(version, local, yes, valid, loggedIn, reachable) ==
    /\ pub = PubIdle
    /\ versionInfo = NoInfo
    /\ LET latestRemoteVersion ==
               GetLatestComponentVersion(remoteVersions, reachable)
           localVersion == IF local = NoVersion THEN V001 ELSE local
           baseVersion == IF latestRemoteVersion # NoVersion
                          THEN latestRemoteVersion ELSE localVersion
           failed == [pc |-> "done", baseVersion |-> NoVersion,
                      latestRemoteVersion |-> NoVersion, manual |-> version,
                      yes |-> yes, code |-> 1, uploaded |-> NoVersion,
                      cancelled |-> FALSE]
       IN  pub' = IF RegistryJson \notin DOMAIN diskFiles \/ ~valid
                     \/ ~loggedIn
                  THEN failed
                  ELSE Publishing(baseVersion, latestRemoteVersion, version,
                                  yes)
    /\ UNCHANGED <<remoteVersions, notLib, rtVars, chVars, plVars, auVars,
                   wrVars>>

\* "versionInfo = await detectVersionChanges(CWD, baseVersion)"
PublishAnalyse(persistOk) ==
    /\ pub.pc = "analyse"
    /\ pub.manual = NoVersion
    /\ DetectVersionChanges(pub.baseVersion, persistOk)

\* the versionInfo the rest of the action works with
PublishInfo ==
    IF pub.manual # NoVersion
    THEN VersionInfo(pub.baseVersion, pub.manual, "manual", TRUE)
    ELSE versionInfo

\* from the confirmation prompt to the end: confirm is the answer to the
\* prompt, uploadOk whether the branch, the files and the pull request go
\* through
PublishUpload(confirm, uploadOk) ==
    /\ pub.pc = "analyse"
    /\ pub.manual # NoVersion \/ versionInfo # NoInfo
    /\ LET info == PublishInfo IN
       pub' = IF info = Threw
              THEN Published(pub, 1, NoVersion, FALSE)
              ELSE IF info.hasChanges /\ ~pub.yes /\ ~confirm
              THEN Published(pub, 0, NoVersion, TRUE)
              ELSE IF ~uploadOk
              THEN Published(pub, 1, NoVersion, FALSE)
              ELSE Published(pub, 0,
                             IF info.hasChanges THEN info.newVersion
                             ELSE pub.baseVersion, FALSE)
    /\ UNCHANGED <<remoteVersions, notLib, rtVars, chVars, plVars, auVars,
                   wrVars>>

\* the process is gone, and its locals
PublishExit ==
    /\ pub.pc = "done"
    /\ pub' = PubIdle
    /\ versionInfo' = NoInfo
    /\ previousHashes' = EmptySnapshot
    /\ fileHashes' = EmptySnapshot
    /\ changedFiles' = {}
    /\ newFiles' = {}
    /\ deletedFiles' = {}
    /\ UNCHANGED <<remoteVersions, diskFiles, hashFile, svVars, rdVars,
                   envVars, rsVars, addVars, crVars, rtVars, chVars, plVars,
                   auVars, wrVars>>

\* the user edits the component between two commands
PublishEdit ==
    /\ pub = PubIdle
    /\ \/ \E p \in {RegistryJson, ButtonTsx}, h \in Hashes : WriteFile(p, h)
       \/ RemoveFile(ButtonTsx)

ManualVersions == {NoVersion, V100s, V110s, V100rc}
LocalVersions == {NoVersion, V100s}
RemoteDirectories == {{}, {V100s}, {V100s, V110s, V100rc}}

InitPublish ==
    /\ remoteVersions \in RemoteDirectories
    /\ pub = PubIdle
    /\ DetIdle
    /\ SvIdle
    /\ RdIdle
    /\ EnvIdle
    /\ RsIdle
    /\ AddIdle
    /\ CrIdle
    /\ RtIdle
    /\ ChIdle
    /\ PlIdle
    /\ AuIdle
    /\ WrIdle

NextPublish ==
    \/ \E version \in ManualVersions, local \in LocalVersions,
          yes, valid, loggedIn, reachable \in BOOLEAN :
          Publish(version, local, yes, valid, loggedIn, reachable)
    \/ \E persistOk \in BOOLEAN : PublishAnalyse(persistOk)
    \/ \E confirm, uploadOk \in BOOLEAN : PublishUpload(confirm, uploadOk)
    \/ PublishExit
    \/ PublishEdit

SpecPublish == InitPublish /\ [][NextPublish]_vars

\* C21: a publish whose version analysis could not persist the fingerprint
\* snapshot still ends with exit code 0.
C21_BookkeepingFailureIsWarning ==
    (/\ pub.pc = "done"
     /\ pub.manual = NoVersion
     /\ pub.baseVersion # NoVersion
     /\ versionInfo = Threw)
       => pub.code = 0

(***************************************************************************)
(* The registry dependency loop of add, seen from the command the user     *)
(* typed (the frame at the bottom of the stack).                           *)
(***************************************************************************)
\* the registry dependencies the parent's loop goes through
ResolvedRegistry(frame) ==
    ResolveDependencies(frame.registryItem.dependencies,
                        frame.registryItem.registryDependencies).registry

\* the entries of a list that are not the parent itself, in list order
NotSelf(list, frame) ==
    SelectSeq(list, LAMBDA dep : dep # Join(frame.namespace, frame.name))

\* C22: in the dependency loop of the command the user typed, the
\* dependencies are taken in list order and one at a time: those gone
\* through so far are a prefix of the resolved list, of which the circular
\* ones are flagged and all the others have been started, in that order,
\* with at most one child running; a child that ends, with whatever exit
\* code, hands the loop its next entry; and the step after the loop, with
\* the CSS variables applied and the ledger written, exits 0 with the
\* parent recorded in the ledger, every entry of the list flagged or
\* started.
C22_Safe ==
    (/\ stack # <<>>
     /\ stack[1].pc \in {"deps", "execSync"}
     /\ ~stack[1].options.skipDeps)
       => LET parent == stack[1]
              list == ResolvedRegistry(parent)
              gone == Len(list) - Len(parent.registry)
                        + (IF parent.pc = "execSync" THEN 1 ELSE 0)
              prefix == SubSeq(list, 1, gone)
          IN  /\ Len(stack) <= 2
              /\ Len(stack) = 2 <=> parent.pc = "execSync"
              /\ parent.registry = SubSeq(list, Len(list) - Len(parent.registry) + 1,
                                          Len(list))
              /\ started = NotSelf(prefix, parent)
              /\ flagged = Range(prefix) \cap {Join(parent.namespace, parent.name)}

C22_OthersStillAttempted ==
    /\ []C22_Safe
    /\ [][(Len(stack) = 2 /\ Top.pc = "exit" /\ Len(stack') = 1)
             => /\ stack'[1].pc = "deps"
                /\ stack'[1].registry = Tail(stack[1].registry)]_vars
    /\ [][(/\ Len(stack) = 1
           /\ ~Top.options.skipDeps
           /\ ledgerFile # "corrupt"
           /\ AddTrack(TRUE, TRUE))
             => /\ stack'[1].pc = "exit"
                /\ stack'[1].code = 0
                /\ Join(Top.namespace, Top.name) \in DOMAIN ledger'
                /\ ledger'[Join(Top.namespace, Top.name)] = Top.resolvedVersion
                /\ started = NotSelf(ResolvedRegistry(Top), Top)
                /\ flagged = Range(ResolvedRegistry(Top))
                               \cap {Join(Top.namespace, Top.name)}]_vars

\* the parent u/ab has ended with exit code 0 and is recorded, its circular
\* dependency flagged, its dependency u/cd started and not recorded
C22_Witness ==
    /\ Len(stack) = 1
    /\ Top.pc = "exit"
    /\ Top.code = 0
    /\ Top.tracked
    /\ flagged = {IdA}
    /\ started = <<IdB>>
    /\ IdA \in DOMAIN ledger
    /\ IdB \notin DOMAIN ledger

\* C27: a publish that was cancelled at the prompt, or that failed after
\* its version analysis, leaves the stored fingerprint snapshot as the
\* analysis found it.
C27_SnapshotOnlyOnCompletion ==
    (/\ pub.pc = "done"
     /\ pub.uploaded = NoVersion
     /\ versionInfo.status = "ok")
       => ReadPreviousHashes(hashFile) = previousHashes

\* C28: the version directory of an upload is strictly greater than the
\* latest version the registry already has of the component.
C28_UploadAboveLatestRemote ==
    (/\ pub.pc = "done"
     /\ pub.uploaded # NoVersion
     /\ pub.latestRemoteVersion # NoVersion)
       => SemverGt(pub.uploaded, pub.latestRemoteVersion)

(***************************************************************************)
(* Writing a file of ~/.scm.  Cache.set, setSecureToken and writeConfig    *)
(* all write the file in place with fs.writeJson (fs.writeJsonSync) and    *)
(* then chmod it: the file is opened for writing, which empties it, the    *)
(* text is written to it piece by piece, and the mode is set afterwards.   *)
(* Another scm process, or the next one after a crash, reads the file as   *)
(* it is at that instant.                                                  *)
(***************************************************************************)
CacheFile == "cache/component-u-ab.json"
ConfigPath == "config.json"
ScmPaths == {CacheFile, ConfigPath}

\* what is written: a cache entry, or a configuration with its token
JsonValues(path) ==
    IF path = CacheFile THEN {"entry1", "entry2"}
    ELSE {"encryptedToken1", "encryptedToken2"}

\* the text of a JSON value, in the pieces handed to the file one by one
Stringify(value) == <<"{", value, "}">>

NoFile == [exists |-> FALSE]
File(content, mode) == [exists |-> TRUE, content |-> content, mode |-> mode]

\* a file that holds the whole text of one value, or does not exist
Complete(path, file) ==
    file.exists => \E value \in JsonValues(path) : file.content = Stringify(value)

\* "await fs.writeJson(cacheFile, entry)", "fs.writeJsonSync(configPath,
\* config)", "await fs.writeJson(configPath, config)": the file is opened
\* with flag 'w', created with the default mode if missing, emptied if not
WriteJson(path, value) ==
    /\ writer.pc = "idle"
    /\ scmFiles' = [scmFiles EXCEPT
                      ![path] = File(<<>>, IF @.exists THEN @.mode ELSE "644")]
    /\ writer' = [pc |-> "writing", path |-> path, text |-> Stringify(value)]
    /\ UNCHANGED <<observed, notLib, rtVars, chVars, plVars, auVars, pbVars>>

\* the next piece of the text reaches the file
WriteJsonPiece ==
    /\ writer.pc = "writing"
    /\ LET file == scmFiles[writer.path]
       IN  /\ Len(file.content) < Len(writer.text)
           /\ scmFiles' = [scmFiles EXCEPT
                             ![writer.path].content =
                                 Append(@, writer.text[Len(@) + 1])]
    /\ UNCHANGED <<writer, observed, notLib, rtVars, chVars, plVars, auVars,
                   pbVars>>

\* "fs.chmod(cacheFile, 0o600)", "fs.chmodSync(configPath, 0o600)"
Chmod ==
    /\ writer.pc = "writing"
    /\ scmFiles[writer.path].content = writer.text
    /\ scmFiles' = [scmFiles EXCEPT ![writer.path].mode = "600"]
    /\ writer' = [pc |-> "idle"]
    /\ UNCHANGED <<observed, notLib, rtVars, chVars, plVars, auVars, pbVars>>

\* the process dies in the middle of the write
ProcessCrash ==
    /\ writer.pc = "writing"
    /\ writer' = [pc |-> "idle"]
    /\ UNCHANGED <<scmFiles, observed, notLib, rtVars, chVars, plVars, auVars,
                   pbVars>>

\* another process reads the file (Cache.get, getSecureToken, readConfig)
ReadJson(path) ==
    /\ observed' = [seen |-> TRUE, path |-> path, file |-> scmFiles[path],
                    during |-> writer.pc = "writing"]
    /\ UNCHANGED <<scmFiles, writer, notLib, rtVars, chVars, plVars, auVars,
                   pbVars>>

InitWrite ==
    /\ scmFiles \in [ScmPaths -> {NoFile}
                       \cup {File(Stringify(value), "600") :
                               value \in {"entry1", "encryptedToken1"}}]
    /\ \A path \in ScmPaths : Complete(path, scmFiles[path])
    /\ writer = [pc |-> "idle"]
    /\ observed = [seen |-> FALSE]
    /\ DetIdle
    /\ SvIdle
    /\ RdIdle
    /\ EnvIdle
    /\ RsIdle
    /\ AddIdle
    /\ CrIdle
    /\ RtIdle
    /\ ChIdle
    /\ PlIdle
    /\ AuIdle
    /\ PbIdle

NextWrite ==
    \/ \E path \in ScmPaths : \E value \in JsonValues(path) :
          WriteJson(path, value)
    \/ WriteJsonPiece
    \/ Chmod
    \/ ProcessCrash
    \/ \E path \in ScmPaths : ReadJson(path)

SpecWrite == InitWrite /\ [][NextWrite]_vars

\* C24: whatever another process reads from the cache or from the
\* credential store, during a write or after a crash in the middle of one,
\* is a file that does not exist or that holds the whole text of one value,
\* never a part of it.
C24_WritesAreAtomic ==
    observed.seen => Complete(observed.path, observed.file)

(***************************************************************************)
(* scm preview <component-name> [--force]: the metadata it shows.  The     *)
(* command is a frame of the stack like add; what it prints comes from the *)
(* registryItem of the frame.                                              *)
(***************************************************************************)
PreviewOptions == {o \in Options : ~o.skipDeps /\ ~o.dryRun}

\* the action of preview, from the parsed argument to its exit
Preview(componentName, options) ==
    /\ Quiescent
    /\ LET frame == Frame(componentName, options)
           id == Join(frame.namespace, frame.name)
           resolvedVersion ==
               ResolveComponentVersion(id, frame.version, registryIndex)
           known == id \in Components
           cached == IF known /\ ~options.force THEN cache[id] ELSE NoItem
           served == known /\ resolvedVersion \in registry[id]
       IN  IF ~frame.isValid
           THEN /\ stack' = <<Exit(frame, 1)>>
                /\ UNCHANGED cache
           ELSE IF frame.version # VLatest /\ ~ValidateVersion(frame.version)
           THEN /\ stack' = <<Exit(frame, 1)>>
                /\ UNCHANGED cache
           ELSE IF cached # NoItem
           THEN /\ stack' = <<Exit(
                    [frame EXCEPT !.resolvedVersion = resolvedVersion,
                                  !.componentUrl = resolvedVersion,
                                  !.registryItem = cached,
                                  !.fromCache = TRUE], 0)>>
                /\ UNCHANGED cache
           ELSE IF ~served
           THEN /\ stack' = <<Exit(
                    [frame EXCEPT !.resolvedVersion = resolvedVersion,
                                  !.componentUrl = resolvedVersion], 1)>>
                /\ UNCHANGED cache
           ELSE /\ stack' = <<Exit(
                    [frame EXCEPT !.resolvedVersion = resolvedVersion,
                                  !.componentUrl = resolvedVersion,
                                  !.registryItem =
                                      Manifest(id, resolvedVersion)], 0)>>
                /\ cache' = [cache EXCEPT ![id] = Manifest(id, resolvedVersion)]
    /\ UNCHANGED <<manifestDeps, ledger, flagged, started, exitCode,
                   projVars, envVars, notAdd>>

\* add --dry-run and preview, one command after the other
NextPreview ==
    \/ \E a \in AddArguments, o \in PreviewOptions : Preview(a, o)
    \/ \E a \in AddArguments, o \in {o \in AddOptions : o.dryRun} : RunAdd(a, o)
    \/ AddFetch
    \/ CommandExit

SpecPreview == InitInstall /\ [][NextPreview]_vars

\* C26: the metadata a running add or preview holds for namespace/name at
\* the resolved version is the manifest of that component at that version.
C26_MetadataOfResolvedVersion ==
    \A i \in 1..Len(stack) :
       stack[i].registryItem # NoItem =>
          /\ stack[i].registryItem.name = Join(stack[i].namespace, stack[i].name)
          /\ stack[i].registryItem.version =
                DeclaredVersion(stack[i].resolvedVersion)

(***************************************************************************)
(* The ledger of a project after an install with two registry              *)
(* dependencies: u/ab declares u/cd and u/ef, the registry serves all      *)
(* three.                                                                  *)
(***************************************************************************)
LedgerComponents == {IdA, IdB, IdC}

InitLedger ==
    /\ registryIndex \in
          {[up |-> up, records |-> [c \in LedgerComponents |-> Listed(V100)]] :
              up \in BOOLEAN}
    /\ registry = [c \in LedgerComponents |-> {V100, VLatest}]
    /\ manifestDeps = [c \in LedgerComponents |->
                          IF c = IdA THEN <<IdB, IdC>> ELSE <<>>]
    /\ cache = [c \in LedgerComponents |-> NoItem]
    /\ ledger = <<>>
    /\ ledgerFile = "missing"
    /\ projectFiles = <<>>
    /\ npmPackages = {}
    /\ cssFile = {}
    /\ stack = <<>>
    /\ flagged = {}
    /\ started = <<>>
    /\ exitCode = -1
    /\ DetIdle
    /\ SvIdle
    /\ RdIdle
    /\ RsIdle
    /\ CrIdle
    /\ LibIdle

NextLedger ==
    \/ \E a \in {IdA, IdB, AtVersion(IdC, V100)}, o \in AddOptions : RunAdd(a, o)
    \/ AddStep

SpecLedger == InitLedger /\ [][NextLedger]_vars

\* C30: a dependency's install that ends having recorded itself has its
\* entry in the ledger when the parent takes over again; while a command
\* runs no entry leaves the ledger, and none but that of the component
\* being recorded changes; and a parent that ends having recorded itself is
\* in the ledger.  So after an install of u/ab whose two sub-installs
\* recorded themselves the ledger holds all three.
C30_LedgerKeepsChildEntries ==
    /\ [](\A i \in 1..Len(stack) :
             (stack[i].pc = "exit" /\ stack[i].tracked)
                => Join(stack[i].namespace, stack[i].name) \in DOMAIN ledger)
    /\ [][stack # <<>> =>
            \A id \in DOMAIN ledger :
               /\ id \in DOMAIN ledger'
               /\ id # Join(Top.namespace, Top.name) => ledger'[id] = ledger[id]]_vars

\* scm add u/ab has ended, recorded; it started u/cd and then u/ef, and the
\* ledger holds the three of them
C30_Witness ==
    /\ Len(stack) = 1
    /\ Top.componentName = IdA
    /\ Top.pc = "exit"
    /\ Top.code = 0
    /\ Top.tracked
    /\ started = <<IdB, IdC>>
    /\ DOMAIN ledger = {IdA, IdB, IdC}

====
